---- MODULE Spec2Model ----
(***************************************************************************)
(* Model of the download-acquisition subsystem of the YouTube downloader:  *)
(* the per-client rate-limit gate and the acquisition ladder of            *)
(* POST /api/download (server routes), the ProxyService fallback layers    *)
(* (mirror APIs, yt-dlp, yt-dlp through proxies) and the video format      *)
(* selector shared by POST /api/download and GET /api/stream/video; the    *)
(* audio selection, the filename generation, the streaming routes that     *)
(* relay an upstream stream, the identifier extraction and the history     *)
(* routes over the download_history table.                                 *)
(*                                                                         *)
(* Time is Date.now() in milliseconds.  A string is modelled by the set of *)
(* the phrases the code searches in it with String.includes: includes(p)   *)
(* is membership and concatenation is union.  Where the characters of a    *)
(* string matter (titles, URLs) it is the sequence of its characters.      *)
(***************************************************************************)
EXTENDS Integers, Sequences, FiniteSets, TLC

(* ------------------------------ bounds -------------------------------- *)
\* number of clock advances explored by the full handler specification
MaxTicks == 1
\* number of clock advances explored by the gate specification
MaxTicksGate == 6
\* number of proxy candidates a refresh can return
NumProxies == 2
\* longest encoding list given to the format selector
MaxFormats == 3
\* longest arbitrary tail of a title
MaxTitle == 3
\* most rows of the history table
MaxHistory == 2
\* number of clock advances explored with two interleaved requests
MaxTicksPair == 2
\* longest recorded history the gate is compared on
MaxGateHistory == 6
MaxBuffered == 1
MaxMutations == 2

(* ------------------------- program constants -------------------------- *)
serverStartTime == 100000
timeWindowProd == 7200000
timeWindowDev == 3600000
maxRequestsProd == 5
maxRequestsDev == 10
minIntervalProd == 30000
minIntervalDev == 5000
PROXY_REFRESH_INTERVAL == 3600000
NumEndpoints == 7
MaxProxyTries == 3
MaxProxiesReturned == 10
MaxStemLength == 100
NumStrategies == 5
MaxFetched == 50
MaxTested == 20

Clients == {"ip1", "ip2"}
Reqs == {1}
Proxies == 1..NumProxies

\* the URL of a request: rejected by ytdl.validateURL, accepted by it but not
\* matched by ProxyService.extractVideoId, accepted by both, or accepted by
\* both and holding a lone surrogate, on which encodeURIComponent throws
Urls == {"invalid", "noVideoId", "valid", "unencodable"}

\* what an upstream call (mirror endpoint, yt-dlp) can answer
Outcomes == {"fail", "okEmpty", "okFormats"}

\* error messages a direct ytdl.getInfo call can raise, as phrase sets
StrategyErrors == {{"Sign in to confirm"}, {}}


VARIABLES isProduction, now, ticks, requestTracker, workingProxies,
          lastProxyRefresh, req, formats, quality, videoFormat, selectedFormat,
          selPc, selOut, audioInfo, audioFormat, audioPc,
          title, format, sanitizedTitle, filename, alive, relay,
          url, contentId, videoId, ffmpegVideoId, urlPc, history, lastOp,
          ff, tempFiles, gateRequests, gateNow, gateVerdict,
          isDownloading, currentMutation, mutations

vars == <<isProduction, now, ticks, requestTracker, workingProxies,
          lastProxyRefresh, req, formats, quality, videoFormat, selectedFormat,
          selPc, selOut, audioInfo, audioFormat, audioPc,
          title, format, sanitizedTitle, filename, alive, relay,
          url, contentId, videoId, ffmpegVideoId, urlPc, history, lastOp,
          ff, tempFiles, gateRequests, gateNow, gateVerdict,
          isDownloading, currentMutation, mutations>>

serverVars == <<isProduction, now, ticks, requestTracker, workingProxies,
                lastProxyRefresh, req>>
selVars == <<formats, quality, videoFormat, selectedFormat, selPc, selOut>>
audioVars == <<audioInfo, audioFormat, audioPc>>
\* the state of the operations outside the acquisition ladder and the video
\* format selection
fnameVars == <<title, format, sanitizedTitle, filename>>
relayVars == <<alive, relay>>
urlVars == <<url, contentId, videoId, ffmpegVideoId, urlPc>>
histVars == <<history, lastOp>>
ffVars == <<ff, tempFiles>>
limVars == <<gateRequests, gateNow, gateVerdict>>
clientVars == <<isDownloading, currentMutation, mutations>>
extVars == <<audioVars, fnameVars, relayVars, urlVars, histVars, ffVars, limVars, clientVars>>

(* ----------------------------- responses ------------------------------ *)
NoResponse == [status |-> 0, message |-> "", retryAfter |-> <<>>]
Response(s, m, ra) == [status |-> s, message |-> m, retryAfter |-> ra]

\* what the two callers of the selection did with its result: the response of
\* POST /api/download, and whether GET /api/stream/video opened the relay
NoOutcome == [download |-> NoResponse, stream |-> "none"]

\* the locals of one POST /api/download call: where it is suspended (pc), the
\* client and URL it came with, the mirror endpoints fetched (mi), the yt-dlp
\* calls made without a proxy (ytdlp), the proxy list getVideoInfo iterates and
\* the proxies tried (pi), the errors of the direct strategies (attempts),
\* lastError, the error thrown to the handler's catch, the response sent, and
\* the number of expired timestamps getRateLimitInfo dropped (pruned); and, kept
\* for the record, the Date.now() of its gate (at), the acquisition calls it
\* started and saw answered (calls), and the Date.now() at which the
\* refreshProxyList it awaits was entered (refreshAt), the candidates the
\* refresh it awaited had fetched and those whose health check answered
IdleReq == [pc |-> "idle", client |-> "ip1", url |-> "valid", pruned |-> 0, mi |-> 0,
            ytdlp |-> 0, proxies |-> <<>>, pi |-> 0, attempts |-> <<>>,
            lastError |-> {}, thrown |-> {}, resp |-> NoResponse,
            at |-> 0, calls |-> <<>>, refreshAt |-> 0,
            candidates |-> <<>>, answered |-> {}]

\* an acquisition call is started, or answers: "formats" is a result with at
\* least one format, "empty" an HTTP-success answer of a mirror without one,
\* "none" a call that raised or returned nothing usable
Started(q, layer) == [q EXCEPT !.calls = Append(@, [layer |-> layer, ev |-> "start"])]
Answered(q, layer, ev) == [q EXCEPT !.calls = Append(@, [layer |-> layer, ev |-> ev])]

(* --------------------------- rate limiter ----------------------------- *)
timeWindow == IF isProduction THEN timeWindowProd ELSE timeWindowDev
maxRequests == IF isProduction THEN maxRequestsProd ELSE maxRequestsDev
minInterval == IF isProduction THEN minIntervalProd ELSE minIntervalDev

\* the same three settings as functions of NODE_ENV === 'production'
timeWindowIn(p) == IF p THEN timeWindowProd ELSE timeWindowDev
\* variant: the two ceilings are exchanged
maxRequestsIn_Swapped(p) == IF p THEN maxRequestsDev ELSE maxRequestsProd

maxRequestsIn(p) == IF p THEN maxRequestsProd ELSE maxRequestsDev
minIntervalIn(p) == IF p THEN minIntervalProd ELSE minIntervalDev

\* the clock advances explored: the minimum interval and the window length
TickSteps == {minInterval, timeWindow}

\* variant: a timestamp exactly one window old still counts
RecentRequests_Inclusive(requests, t) ==
    SelectSeq(requests, LAMBDA time : t - time <= timeWindow)

\* requests.filter(time => now - time < timeWindow)
RecentRequests(requests, t) ==
    SelectSeq(requests, LAMBDA time : t - time < timeWindow)

\* variant: the oldest recent timestamp is taken for the last request
LastRequest_Oldest(recent) == IF Len(recent) > 0 THEN recent[1] ELSE 0

\* recentRequests[recentRequests.length - 1] || 0
LastRequest(recent) == IF Len(recent) > 0 THEN recent[Len(recent)] ELSE 0

\* rateLimitInfo.count > maxRequests
OverCeiling(count) == count > maxRequests

\* timeSinceLastRequest < minInterval
TooRecent(t, lastRequest) == t - lastRequest < minInterval

\* the conditions under which POST /api/download answers 429, for client c now
GateRejects(c) ==
    LET recent == RecentRequests(requestTracker[c], now)
    IN OverCeiling(Len(recent)) \/ TooRecent(now, LastRequest(recent))

TooManyRequestsResponse ==
    Response(429, "Too many requests. Please wait", <<>>)
WaitBetweenResponse ==
    Response(429, "Please wait N seconds between downloads", <<>>)
InvalidUrlResponse == Response(400, "Invalid YouTube URL", <<>>)
SuccessResponse == Response(200, "success", <<>>)

(* ------------------------- error classification ----------------------- *)
\* message of the error ProxyService.getVideoInfo throws at its end
AllMethodsFailedMessage == {"blocked", "unavailable"}

\* isBlocked of strategy 4's catch block
isBlocked(errorMessage) ==
    \/ "Sign in to confirm" \in errorMessage
    \/ "robot" \in errorMessage
    \/ "captcha" \in errorMessage
    \/ "blocked" \in errorMessage
    \/ "unavailable" \in errorMessage
    \/ "parsing watch.html" \in errorMessage

\* the Error strategy 4's catch block throws: a fixed text when blocked,
\* else "Video download failed. Error: " followed by the message
ThrownMessage(errorMessage) ==
    IF isBlocked(errorMessage)
    THEN {"YouTube is temporarily blocking"}
    ELSE errorMessage

BlockingResponse == Response(503, "YouTube is temporarily blocking downloads", <<1800>>)
DetectedResponse == Response(429, "YouTube detected too many requests", <<300>>)
MadeTooManyResponse == Response(429, "You've made too many download requests", <<300>>)
VerificationResponse == Response(429, "YouTube requires verification", <<600>>)
FailedResponse == Response(500, "Failed to download video", <<>>)

\* the catch block of POST /api/download
ErrorResponse(errorMessage) ==
    IF "YouTube is currently blocking" \in errorMessage THEN BlockingResponse
    ELSE IF "YouTube detected automated access" \in errorMessage THEN DetectedResponse
    ELSE IF "Too many requests" \in errorMessage THEN MadeTooManyResponse
    ELSE IF \/ "Sign in to confirm" \in errorMessage
            \/ "robot" \in errorMessage
            \/ "captcha" \in errorMessage THEN VerificationResponse
    ELSE FailedResponse

(* ------------------------------ actions ------------------------------- *)
Min(a, b) == IF a < b THEN a ELSE b

\* variant: every candidate tested is kept
testProxiesOf_NoCheck(candidates, answered) ==
    SubSeq(candidates, 1, Min(MaxTested, Min(MaxFetched, Len(candidates))))

\* testProxies(allProxies.slice(0, 50)): of the first 20 candidates, those whose
\* health check answered 200, in list order
testProxiesOf(candidates, answered) ==
    SelectSeq(SubSeq(candidates, 1, Min(MaxTested, Min(MaxFetched, Len(candidates)))),
              LAMBDA p : p \in answered)

\* the candidates the proxy-list sources return
Candidates(n) == [i \in 1..n |-> i]

\* testProxies: the candidates that answered the health check, in list order
testProxies(answered) == testProxiesOf(Candidates(NumProxies), answered)

\* getWorkingProxies refreshes when the cache is older than the interval or empty
NeedsRefresh ==
    \/ now - lastProxyRefresh > PROXY_REFRESH_INTERVAL
    \/ Len(workingProxies) = 0

\* the entry into the direct ladder: strategy 1 (simulateHumanBehavior, then
\* ytdl.getInfo)
StartDirect(q, e) == Started([q EXCEPT !.pc = "direct", !.lastError = e], "direct")

\* variant: the calls through the proxies are started together
StartProxies_AllAtOnce(q, list) ==
    LET proxies == SubSeq(list, 1, Min(MaxProxyTries, Min(MaxProxiesReturned, Len(list))))
    IN IF Len(proxies) = 0
       THEN StartDirect(q, AllMethodsFailedMessage)
       ELSE [q EXCEPT !.pc = "proxy", !.proxies = proxies, !.pi = 0,
                      !.calls = @ \o [k \in 1..Len(proxies) |-> [layer |-> "proxy", ev |-> "start"]]]

\* the loop of getVideoInfo method 3 over workingProxies.slice(0, 10).slice(0, 3);
\* with nothing to try getVideoInfo throws and the handler enters the direct ladder
StartProxies(q, list) ==
    LET proxies == SubSeq(list, 1, Min(MaxProxyTries, Min(MaxProxiesReturned, Len(list))))
    IN IF Len(proxies) = 0
       THEN StartDirect(q, AllMethodsFailedMessage)
       ELSE Started([q EXCEPT !.pc = "proxy", !.proxies = proxies, !.pi = 0], "proxy")

\* variant: the URL is not validated
ValidUrl_Any(u) == TRUE

\* url && (url.includes('youtube.com') || ...) && ytdl.validateURL(url)
ValidUrl(u) == u # "invalid"

\* encodeURIComponent(url) throws URIError on a lone surrogate
Encodable(u) == u # "unencodable"

UriMalformedMessage == {"URI malformed"}

EncodableUrls == {u \in Urls : Encodable(u)}

\* variant: the timestamp is pushed twice
addRequest_Twice(requests, t) == Append(Append(requests, t), t)

\* variant: the timestamp is not yet written when the handler suspends
addRequest_Deferred(requests, t) == requests

\* addRequest: requests.push(Date.now())
addRequest(requests, t) == Append(requests, t)

\* variant: a result is kept whether or not it has a format
KeepsResult_Any(o) == o # "fail"

\* altResult && altResult.formats.length > 0 / result.formats.length > 0
KeepsResult(o) == o = "okFormats"

\* getVideoInfo has returned a result to the handler, whose try block builds
\* the filename and the download URL and sends the success response; what is
\* thrown there is caught with the resolver's own errors, and the direct ladder
\* is entered
Resolved(q) ==
    IF Encodable(q.url)
    THEN [q EXCEPT !.pc = "done", !.resp = SuccessResponse]
    ELSE StartDirect(q, UriMalformedMessage)

\* POST /api/download up to its first await: URL validation, the rate-limit gate,
\* addRequest, and the entry into proxyService.getVideoInfo, whose
\* tryAlternativeServices returns null at once when the URL has no video id
Receive(r, c, u) ==
    /\ req[r].pc = "idle"
    /\ LET recent == RecentRequests(requestTracker[c], now)
           count == Len(recent)
           lastRequest == LastRequest(recent)
           p == [IdleReq EXCEPT !.client = c, !.url = u]
           q == [p EXCEPT !.pruned = Len(requestTracker[c]) - count, !.at = now]
       IN IF ~ValidUrl(u)
          THEN /\ req' = [req EXCEPT ![r] = [p EXCEPT !.pc = "done", !.resp = InvalidUrlResponse]]
               /\ UNCHANGED requestTracker
          ELSE IF OverCeiling(count)
          THEN /\ req' = [req EXCEPT ![r] = [q EXCEPT !.pc = "done", !.resp = TooManyRequestsResponse]]
               /\ requestTracker' = [requestTracker EXCEPT ![c] = recent]
          ELSE IF TooRecent(now, lastRequest)
          THEN /\ req' = [req EXCEPT ![r] = [q EXCEPT !.pc = "done", !.resp = WaitBetweenResponse]]
               /\ requestTracker' = [requestTracker EXCEPT ![c] = recent]
          ELSE /\ req' = [req EXCEPT ![r] =
                      IF u = "noVideoId" THEN Started([q EXCEPT !.pc = "ytdlp"], "ytdlp")
                      ELSE Started([q EXCEPT !.pc = "mirror"], "mirror")]
               /\ requestTracker' = [requestTracker EXCEPT ![c] = addRequest(recent, now)]
    /\ UNCHANGED <<isProduction, now, ticks, workingProxies, lastProxyRefresh>>
    /\ UNCHANGED <<selVars, extVars>>

\* tryAlternativeServices: the answer of the next mirror endpoint.  The first
\* response.ok answer is returned, with or without formats; getVideoInfo keeps
\* it only when it has formats and otherwise goes on to yt-dlp
MirrorReply(r, o) ==
    /\ req[r].pc = "mirror"
    /\ LET q == [req[r] EXCEPT !.mi = @ + 1]
       IN req' = [req EXCEPT ![r] =
                IF o = "fail"
                THEN IF q.mi < NumEndpoints
                     THEN Started(Answered(q, "mirror", "none"), "mirror")
                     ELSE Started([Answered(q, "mirror", "none") EXCEPT !.pc = "ytdlp"], "ytdlp")
                ELSE LET a == Answered(q, "mirror", IF o = "okFormats" THEN "formats" ELSE "empty")
                     IN IF KeepsResult(o) THEN Resolved(a)
                        ELSE Started([a EXCEPT !.pc = "ytdlp"], "ytdlp")]
    /\ UNCHANGED <<isProduction, now, ticks, requestTracker, workingProxies, lastProxyRefresh>>
    /\ UNCHANGED <<selVars, extVars>>

\* getVideoInfo method 2: the answer of yt-dlp without a proxy, then the
\* synchronous start of getWorkingProxies
YtDlpReply(r, o) ==
    /\ req[r].pc = "ytdlp"
    /\ LET q == Answered([req[r] EXCEPT !.ytdlp = @ + 1], "ytdlp",
                         IF o = "okFormats" THEN "formats" ELSE "none")
       IN req' = [req EXCEPT ![r] =
                IF KeepsResult(o) THEN Resolved(q)
                ELSE IF NeedsRefresh THEN [q EXCEPT !.pc = "refresh", !.refreshAt = now]
                ELSE StartProxies(q, workingProxies)]
    /\ UNCHANGED <<isProduction, now, ticks, requestTracker, workingProxies, lastProxyRefresh>>
    /\ UNCHANGED <<selVars, extVars>>

\* refreshProxyList completes on the candidates fetched: the cache holds the
\* tested candidates that answered; the candidates and the answers are kept
\* with the request where they are followed (kept)
Refresh(r, candidates, answered, kept) ==
    /\ req[r].pc = "refresh"
    /\ workingProxies' = testProxiesOf(candidates, answered)
    /\ lastProxyRefresh' = now
    /\ req' = [req EXCEPT ![r] =
                StartProxies([req[r] EXCEPT !.refreshAt = 0,
                                            !.candidates = IF kept THEN candidates ELSE <<>>,
                                            !.answered = IF kept THEN answered ELSE {}],
                             workingProxies')]
    /\ UNCHANGED <<isProduction, now, ticks, requestTracker>>
    /\ UNCHANGED <<selVars, extVars>>

\* refreshProxyList on candidate lists of any length
RefreshFrom(r, candidates, answered) == Refresh(r, candidates, answered, TRUE)

\* refreshProxyList completes: the cache holds the candidates that answered
RefreshDone(r, answered) == Refresh(r, Candidates(NumProxies), answered, FALSE)

\* getVideoInfo method 3: the answer of yt-dlp through the next proxy
ProxyReply(r, o) ==
    /\ req[r].pc = "proxy"
    /\ LET q == Answered([req[r] EXCEPT !.pi = @ + 1], "proxy",
                         IF o = "okFormats" THEN "formats" ELSE "none")
       IN req' = [req EXCEPT ![r] =
                IF KeepsResult(o) THEN Resolved(q)
                ELSE IF q.pi < Len(q.proxies) THEN Started(q, "proxy")
                ELSE StartDirect(q, AllMethodsFailedMessage)]
    /\ UNCHANGED <<isProduction, now, ticks, requestTracker, workingProxies, lastProxyRefresh>>
    /\ UNCHANGED <<selVars, extVars>>

\* a direct strategy (ytdl.getInfo, strategies 1 to 4) returns the video info;
\* the download URL is built with encodeURIComponent(url), and what that
\* throws is answered by the catch block
StrategySucceeds(r) ==
    /\ req[r].pc = "direct"
    /\ LET q == Answered(req[r], "direct", "formats")
       IN req' = [req EXCEPT ![r] =
                IF Encodable(q.url)
                THEN [q EXCEPT !.pc = "done", !.resp = SuccessResponse]
                ELSE [q EXCEPT !.pc = "done", !.thrown = UriMalformedMessage,
                               !.resp = ErrorResponse(UriMalformedMessage)]]
    /\ UNCHANGED <<isProduction, now, ticks, requestTracker, workingProxies, lastProxyRefresh>>
    /\ UNCHANGED <<selVars, extVars>>

\* a direct strategy raises: the next one is tried, and after strategy 4 the
\* error is classified, thrown and answered by the catch block
StrategyFails(r, e) ==
    /\ req[r].pc = "direct"
    /\ LET q == Answered([req[r] EXCEPT !.attempts = Append(@, e), !.lastError = e],
                         "direct", "none")
       IN req' = [req EXCEPT ![r] =
                IF Len(q.attempts) < 4 THEN Started(q, "direct")
                ELSE [q EXCEPT !.pc = "done",
                               !.thrown = ThrownMessage(q.lastError),
                               !.resp = ErrorResponse(ThrownMessage(q.lastError))]]
    /\ UNCHANGED <<isProduction, now, ticks, requestTracker, workingProxies, lastProxyRefresh>>
    /\ UNCHANGED <<selVars, extVars>>

\* the response has been sent and the call's locals are gone
Close(r) ==
    /\ req[r].pc = "done"
    /\ req' = [req EXCEPT ![r] = IdleReq]
    /\ UNCHANGED <<isProduction, now, ticks, requestTracker, workingProxies, lastProxyRefresh>>
    /\ UNCHANGED <<selVars, extVars>>

\* Date.now() advances
Tick(max, d) ==
    /\ ticks < max
    /\ now' = now + d
    /\ ticks' = ticks + 1
    /\ UNCHANGED <<isProduction, requestTracker, workingProxies, lastProxyRefresh, req>>
    /\ UNCHANGED <<selVars, extVars>>

ServerInit ==
    /\ isProduction \in BOOLEAN
    /\ now = serverStartTime
    /\ ticks = 0
    /\ requestTracker = [c \in Clients |-> <<>>]
    /\ workingProxies = <<>>
    /\ lastProxyRefresh = 0
    /\ req = [r \in Reqs |-> IdleReq]

SelIdle ==
    /\ formats = <<>>
    /\ quality = "highest"
    /\ videoFormat = 0
    /\ selectedFormat = 0
    /\ selPc = {}
    /\ selOut = NoOutcome

AudioIdle ==
    /\ audioInfo = <<>>
    /\ audioFormat = 0
    /\ audioPc = "idle"

\* a string is the sequence of its characters
FnameIdle ==
    /\ title = <<>>
    /\ format = "video"
    /\ sanitizedTitle = <<>>
    /\ filename = <<>>

\* the streaming requests and the routes that relay an upstream stream
RelayReqs == {1, 2}
Routes == {"audio", "video", "proxy-audio", "proxy-video", "download-ffmpeg"}

\* one streaming request: where its handler is suspended (pc), the getInfo
\* attempt of GET /api/stream/video, whether the upstream stream has an 'error'
\* listener, res.headersSent, what was written to res, whether res was ended,
\* whether res.json was called on sent headers, whether the upstream failed and
\* whether the connection was dropped with the process; and, for the record,
\* whether POST /api/download would have answered the client 429 at the time
\* the request came in (barred); whether the client has disconnected and how
\* many chunks were read from the upstream since
IdleRelay == [pc |-> "idle", route |-> "audio", attempt |-> 0, listener |-> FALSE,
              headersSent |-> FALSE, body |-> "none", status |-> 0, ended |-> FALSE,
              jsonLate |-> FALSE, upstreamFailed |-> FALSE, dropped |-> FALSE,
              barred |-> FALSE, clientGone |-> FALSE, fetchedAfter |-> 0]

RelayIdle ==
    /\ alive = TRUE
    /\ relay = [r \in RelayReqs |-> IdleRelay]

\* a URL, the identifier of the content it was written for, and the
\* identifiers the two extractions found in it (<<>> is null)
UrlIdle ==
    /\ url = <<>>
    /\ contentId = <<>>
    /\ videoId = <<>>
    /\ ffmpegVideoId = <<>>
    /\ urlPc = {}

\* the download_history table and the last history request served: its
\* operation, the id it named, whether the database call resolved, the status
\* and body of the response, and the number of rows before it
NoOp == [op |-> "none", id |-> 0, ok |-> TRUE, status |-> 0, body |-> {}, before |-> 0]

HistIdle ==
    /\ history = {}
    /\ lastOp = NoOp

NoVerdict == [applied |-> FALSE, prod |-> FALSE, dev |-> FALSE]

LimIdle ==
    /\ gateRequests = <<>>
    /\ gateNow = serverStartTime
    /\ gateVerdict = NoVerdict

\* the POST /api/download-ffmpeg requests
FfReqs == {1, 2}

\* the videos asked for; video and format make the outputPath, and the
\* requests here ask for one format
FfVideos == {"v1", "v2"}

\* one POST /api/download-ffmpeg call: the video it asks for, where it is
\* suspended (pc), the loop index i, downloadSuccess, the status sent, how it
\* ended, and for the record the strategies spawned and how each exited; the
\* timeout in ms its running yt-dlp process was spawned with (0: none) and
\* whether that process has hung, never to emit 'close' or 'error' by itself;
\* whether POST /api/download would have answered the client 429 at the time
\* the request came in (barred)
IdleFf == [video |-> "v1", pc |-> "idle", i |-> 0, downloadSuccess |-> FALSE, status |-> 0,
           outcome |-> "none", spawned |-> <<>>, exits |-> <<>>,
           timeout |-> 0, hung |-> FALSE, barred |-> FALSE]

FfIdle ==
    /\ ff = [r \in FfReqs |-> IdleFf]
    /\ tempFiles = {}

\* the mutations the Downloader component starts with downloadMutation.mutate
Mutations == 1..MaxMutations

\* one call of downloadMutation.mutate: where it is (pc), how POST
\* /api/download answered, whether the record of its POST /api/downloads was
\* stored, whether the link to downloadUrl was clicked; and, for the record,
\* whether the user cancelled it while it was in progress
IdleMutation == [pc |-> "none", answer |-> "none", recorded |-> FALSE,
                 clicked |-> FALSE, cancelled |-> FALSE]

ClientIdle ==
    /\ isDownloading = FALSE
    /\ currentMutation = 0
    /\ mutations = [m \in Mutations |-> IdleMutation]

ExtIdle == AudioIdle /\ FnameIdle /\ RelayIdle /\ UrlIdle /\ HistIdle /\ FfIdle /\ LimIdle /\ ClientIdle

Init == ServerInit /\ SelIdle /\ ExtIdle

\* the handler under clock advances, for the URLs that encodeURIComponent takes
Next ==
    \/ \E r \in Reqs, c \in Clients, u \in EncodableUrls : Receive(r, c, u)
    \/ \E r \in Reqs, o \in Outcomes : MirrorReply(r, o)
    \/ \E r \in Reqs, o \in Outcomes : YtDlpReply(r, o)
    \/ \E r \in Reqs, answered \in SUBSET Proxies : RefreshDone(r, answered)
    \/ \E r \in Reqs, o \in Outcomes : ProxyReply(r, o)
    \/ \E r \in Reqs : StrategySucceeds(r)
    \/ \E r \in Reqs, e \in StrategyErrors : StrategyFails(r, e)
    \/ \E r \in Reqs : Close(r)
    \/ \E d \in TickSteps : Tick(MaxTicks, d)

Spec == Init /\ [][Next]_vars

\* behaviours in which the first upstream call of every accepted request
\* answers with formats: the acquisition ladder neither reads nor writes
\* requestTracker, so the gate is explored over longer request histories
NextGate ==
    \/ \E r \in Reqs, c \in Clients, u \in EncodableUrls : Receive(r, c, u)
    \/ \E r \in Reqs : MirrorReply(r, "okFormats")
    \/ \E r \in Reqs : YtDlpReply(r, "okFormats")
    \/ \E r \in Reqs : Close(r)
    \/ \E d \in TickSteps : Tick(MaxTicksGate, d)

SpecGate == Init /\ [][NextGate]_vars

\* the acquisition ladder for every kind of URL, at one reading of the clock:
\* each client has one request accepted, the second finds the proxy cache as
\* the first left it
NextLadder ==
    \/ \E r \in Reqs, c \in Clients, u \in Urls : Receive(r, c, u)
    \/ \E r \in Reqs, o \in Outcomes : MirrorReply(r, o)
    \/ \E r \in Reqs, o \in Outcomes : YtDlpReply(r, o)
    \/ \E r \in Reqs, answered \in SUBSET Proxies : RefreshDone(r, answered)
    \/ \E r \in Reqs, o \in Outcomes : ProxyReply(r, o)
    \/ \E r \in Reqs : StrategySucceeds(r)
    \/ \E r \in Reqs, e \in StrategyErrors : StrategyFails(r, e)
    \/ \E r \in Reqs : Close(r)

SpecLadder == Init /\ [][NextLadder]_vars

\* two requests of one client whose handlers interleave at their awaits: the
\* gate and the proxy cache, for URLs that take getVideoInfo straight to
\* yt-dlp, with every call after the refresh answering at once
PairReqs == {1, 2}

\* clock advances that separate two requests by less than the minimum
\* interval, by the minimum interval, and by one window from a request made a
\* millisecond before
PairTickSteps == {1, minInterval, timeWindow - 1}

InitPair ==
    /\ isProduction \in BOOLEAN
    /\ now = serverStartTime
    /\ ticks = 0
    /\ requestTracker = [c \in Clients |-> <<>>]
    /\ workingProxies = <<>>
    /\ lastProxyRefresh = 0
    /\ req = [r \in PairReqs |-> IdleReq]
    /\ SelIdle
    /\ ExtIdle

NextPair ==
    \/ \E r \in PairReqs, u \in {"invalid", "noVideoId"} : Receive(r, "ip1", u)
    \/ \E r \in PairReqs, o \in {"fail", "okFormats"} : YtDlpReply(r, o)
    \/ \E r \in PairReqs, answered \in {{}, {1}} : RefreshDone(r, answered)
    \/ \E r \in PairReqs : ProxyReply(r, "okFormats")
    \/ \E r \in PairReqs : StrategySucceeds(r)
    \/ \E r \in PairReqs : Close(r)
    \/ \E d \in PairTickSteps : Tick(MaxTicksPair, d)

SpecPair == InitPair /\ [][NextPair]_vars

\* the proxy cache: refreshes on candidate lists shorter and longer than the
\* slice that is tested, with none, all, the first and the last of the
\* candidates answering the health check
CandidateCounts == {0, 1, MaxTested, MaxTested + 1}
AnswerPatterns(n) == {{}, 1..n, {1}, {n}} \ {{0}}

NextProxies ==
    \/ \E r \in Reqs, c \in Clients : Receive(r, c, "noVideoId")
    \/ \E r \in Reqs : YtDlpReply(r, "fail")
    \/ \E r \in Reqs, n \in CandidateCounts :
          \E answered \in AnswerPatterns(n) : RefreshFrom(r, Candidates(n), answered)
    \/ \E r \in Reqs, o \in Outcomes : ProxyReply(r, o)
    \/ \E r \in Reqs : StrategySucceeds(r)
    \/ \E r \in Reqs : Close(r)

SpecProxies == Init /\ [][NextProxies]_vars

(* --------------------------- format selector -------------------------- *)
Labels == {"2160p", "1440p", "1080p", "720p", "480p", "360p"}

\* the height ytdl-core reports for a quality label
HeightOf(label) ==
    CASE label = "2160p" -> 2160
      [] label = "1440p" -> 1440
      [] label = "1080p" -> 1080
      [] label = "720p" -> 720
      [] label = "480p" -> 480
      [] label = "360p" -> 360
      [] OTHER -> 0

\* the encodings of info.formats: video-only and combined encodings of every
\* label, and an audio-only encoding (no qualityLabel, no height)
FormatKinds ==
    {[qualityLabel |-> l, height |-> HeightOf(l), hasVideo |-> TRUE, hasAudio |-> a] :
        l \in Labels, a \in BOOLEAN}
    \cup {[qualityLabel |-> "", height |-> 0, hasVideo |-> FALSE, hasAudio |-> TRUE]}

FormatLists == UNION {[1..n -> FormatKinds] : n \in 0..MaxFormats}

Qualities == {"4k", "1080p", "720p", "480p", "360p", "highest"}

\* switch (quality): qualityFilter
qualityFilter(q) ==
    CASE q = "4k" -> "2160p"
      [] q = "1080p" -> "1080p"
      [] q = "720p" -> "720p"
      [] q = "480p" -> "480p"
      [] q = "360p" -> "360p"
      [] OTHER -> "highest"

\* switch (quality): fallbackQualities
fallbackQualities(q) ==
    CASE q = "4k" -> <<"1440p", "1080p", "highest">>
      [] q = "1080p" -> <<"720p", "highest">>
      [] q = "720p" -> <<"480p", "highest">>
      [] q = "480p" -> <<"360p", "highest">>
      [] q = "360p" -> <<"lowest">>
      [] OTHER -> <<>>

\* an encoding is named by its position in info.formats; 0 is null / undefined
Positions(F) == [i \in 1..Len(F) |-> i]

\* ytdl.filterFormats(info.formats, 'video')
allVideoFormats(F) == SelectSeq(Positions(F), LAMBDA i : F[i].hasVideo)

\* variant: the filter keeps the video-only encodings ('videoonly')
videoAndAudioFormats_VideoOnly(F) ==
    SelectSeq(Positions(F), LAMBDA i : F[i].hasVideo /\ ~F[i].hasAudio)

\* ytdl.filterFormats(info.formats, 'videoandaudio')
videoAndAudioFormats(F) ==
    SelectSeq(Positions(F), LAMBDA i : F[i].hasVideo /\ F[i].hasAudio)

\* Array.prototype.find and [0] on a filtered list: the first hit, 0 if none
First(hits) == IF Len(hits) = 0 THEN 0 ELSE hits[1]

\* idxs.sort((a, b) => (b.height || 0) - (a.height || 0))[0]: the sort is
\* stable, so the first of the tallest encodings
SortDescFirst(F, idxs) ==
    First(SelectSeq(idxs, LAMBDA i : \A k \in 1..Len(idxs) : F[idxs[k]].height <= F[i].height))

\* idxs.sort((a, b) => (a.height || 0) - (b.height || 0))[0]
SortAscFirst(F, idxs) ==
    First(SelectSeq(idxs, LAMBDA i : \A k \in 1..Len(idxs) : F[idxs[k]].height >= F[i].height))

\* f.qualityLabel?.includes('2160')
Includes2160(label) == label = "2160p"

VideoOnly(F, i) == F[i].hasVideo /\ ~F[i].hasAudio

\* the selection on the requested quality, before the fallback loop
ExactMatch(F, q) ==
    LET av == allVideoFormats(F)
        va == videoAndAudioFormats(F)
    IN IF q = "4k"
       THEN LET s1 == First(SelectSeq(av, LAMBDA i : (F[i].qualityLabel = "2160p" \/ F[i].height = 2160)
                                           /\ VideoOnly(F, i)))
                s2 == First(SelectSeq(av, LAMBDA i : (Includes2160(F[i].qualityLabel) \/ F[i].height = 2160)
                                           /\ F[i].hasVideo))
                s3 == SortDescFirst(F, SelectSeq(av, LAMBDA i :
                          VideoOnly(F, i) /\ F[i].height >= 1080))
                s4 == SortDescFirst(F, SelectSeq(va, LAMBDA i : F[i].height >= 1080))
            IN IF s1 # 0 THEN s1 ELSE IF s2 # 0 THEN s2 ELSE IF s3 # 0 THEN s3 ELSE s4
       ELSE IF q = "1080p"
       THEN LET v == First(SelectSeq(av, LAMBDA i : F[i].qualityLabel = qualityFilter(q) /\ VideoOnly(F, i)))
            IN IF v # 0 THEN v
               ELSE First(SelectSeq(va, LAMBDA i : F[i].qualityLabel = qualityFilter(q)))
       ELSE LET c == First(SelectSeq(va, LAMBDA i : F[i].qualityLabel = qualityFilter(q)))
            IN IF c # 0 THEN c
               ELSE First(SelectSeq(av, LAMBDA i : F[i].qualityLabel = qualityFilter(q) /\ VideoOnly(F, i)))

\* one turn of the fallback loop
Fallback(F, fallback) ==
    LET av == allVideoFormats(F)
        va == videoAndAudioFormats(F)
    IN IF fallback = "highest"
       THEN LET v == SortDescFirst(F, SelectSeq(av, LAMBDA i : VideoOnly(F, i)))
            IN IF v # 0 THEN v ELSE SortDescFirst(F, va)
       ELSE IF fallback = "lowest"
       THEN SortAscFirst(F, va)
       ELSE LET v == First(SelectSeq(av, LAMBDA i : F[i].qualityLabel = fallback /\ VideoOnly(F, i)))
            IN IF v # 0 THEN v ELSE First(SelectSeq(va, LAMBDA i : F[i].qualityLabel = fallback))

\* for (const fallback of fallbackQualities) { ...; if (videoFormat) break; }
RECURSIVE WalkFallbacks(_, _)
WalkFallbacks(F, fallbacks) ==
    IF Len(fallbacks) = 0 THEN 0
    ELSE LET f == Fallback(F, Head(fallbacks))
         IN IF f # 0 THEN f ELSE WalkFallbacks(F, Tail(fallbacks))

\* allVideoFormats.filter(f => f.hasVideo)[0] || videoAndAudioFormats[0]
LastResort(F) ==
    LET v == First(SelectSeq(allVideoFormats(F), LAMBDA i : F[i].hasVideo))
    IN IF v # 0 THEN v ELSE First(SelectSeq(videoAndAudioFormats(F), LAMBDA i : TRUE))

\* the video format selection of POST /api/download and GET /api/stream/video
SelectVideoFormat(F, q) ==
    LET e == ExactMatch(F, q)
        f == IF e # 0 THEN e ELSE WalkFallbacks(F, fallbackQualities(q))
    IN IF f # 0 THEN f ELSE LastResort(F)

\* POST /api/download selects videoFormat; fileSize is computed only under
\* `videoFormat && ...`, and the success result is sent whatever was selected
DownloadSelect ==
    /\ "download" \notin selPc
    /\ videoFormat' = SelectVideoFormat(formats, quality)
    /\ selPc' = selPc \cup {"download"}
    /\ selOut' = [selOut EXCEPT !.download = SuccessResponse]
    /\ UNCHANGED <<formats, quality, selectedFormat>>
    /\ UNCHANGED <<serverVars, extVars>>

\* GET /api/stream/video selects selectedFormat and opens the relay with
\* ytdl(url, { format: selectedFormat, ... }) whatever was selected
StreamSelect ==
    /\ "stream" \notin selPc
    /\ selectedFormat' = SelectVideoFormat(formats, quality)
    /\ selPc' = selPc \cup {"stream"}
    /\ selOut' = [selOut EXCEPT !.stream = "relay"]
    /\ UNCHANGED <<formats, quality, videoFormat>>
    /\ UNCHANGED <<serverVars, extVars>>

InitSel ==
    /\ ServerInit
    /\ formats \in FormatLists
    /\ quality \in Qualities
    /\ videoFormat = 0
    /\ selectedFormat = 0
    /\ selPc = {}
    /\ selOut = NoOutcome
    /\ ExtIdle

NextSel == DownloadSelect \/ StreamSelect

SpecSel == InitSel /\ [][NextSel]_vars

(* ----------------------- proxy-service selection ---------------------- *)
\* VideoInfo.formats[i].quality as the proxy service maps it: the label of a
\* video stream, 'audio' for an audio stream
ProxyQuality(f) == IF f.hasVideo THEN f.qualityLabel ELSE "audio"

\* the label that f.quality.includes(...) is asked for under the requested
\* quality; "" where the proxy-video route has no branch
ProxyNeedle(q) ==
    CASE q = "4k" -> "2160p"
      [] q = "1080p" -> "1080p"
      [] q = "720p" -> "720p"
      [] q = "480p" -> "480p"
      [] OTHER -> ""

\* POST /api/download on the proxy-service path: bestFormat = formats[0],
\* whose filesize is reported for a video
ProxyBestFormat(F) == First(Positions(F))

\* GET /api/stream/proxy-video: formats.find(quality includes ...) || formats[0]
ProxySelectedFormat(F, q) ==
    LET hit == First(SelectSeq(Positions(F), LAMBDA i : ProxyQuality(F[i]) = ProxyNeedle(q)))
    IN IF hit # 0 THEN hit ELSE First(Positions(F))

\* POST /api/download answers from the proxy-service result, which has at
\* least one format
ProxyDownloadSelect ==
    /\ "download" \notin selPc
    /\ Len(formats) > 0
    /\ videoFormat' = ProxyBestFormat(formats)
    /\ selPc' = selPc \cup {"download"}
    /\ selOut' = [selOut EXCEPT !.download = SuccessResponse]
    /\ UNCHANGED <<formats, quality, selectedFormat>>
    /\ UNCHANGED <<serverVars, extVars>>

\* GET /api/stream/proxy-video selects the format whose url it fetches
ProxyStreamSelect ==
    /\ "stream" \notin selPc
    /\ Len(formats) > 0
    /\ selectedFormat' = ProxySelectedFormat(formats, quality)
    /\ selPc' = selPc \cup {"stream"}
    /\ selOut' = [selOut EXCEPT !.stream = "relay"]
    /\ UNCHANGED <<formats, quality, videoFormat>>
    /\ UNCHANGED <<serverVars, extVars>>

NextProxySel == ProxyDownloadSelect \/ ProxyStreamSelect

SpecProxySel == InitSel /\ [][NextProxySel]_vars

(* ---------------------------- audio selection ------------------------ *)
\* declared audio bitrates; 0 is an encoding that declares none
Bitrates == {0, 128, 160}

\* the encodings of info.formats as the audio selection sees them
AudioKinds ==
    [hasVideo : {FALSE}, hasAudio : {TRUE}, audioBitrate : Bitrates]
    \cup {[hasVideo |-> TRUE, hasAudio |-> TRUE, audioBitrate |-> 96],
          [hasVideo |-> TRUE, hasAudio |-> FALSE, audioBitrate |-> 0]}

AudioLists == UNION {[1..n -> AudioKinds] : n \in 0..MaxFormats}

\* ytdl.filterFormats(info.formats, 'audioonly'), as positions of info.formats
audioFormats(F) ==
    SelectSeq(Positions(F), LAMBDA i : ~F[i].hasVideo /\ F[i].hasAudio)

\* audioFormats.find(f => f.audioBitrate) || audioFormats[0]
SelectAudioFormat(F) ==
    LET af == audioFormats(F)
        declared == First(SelectSeq(af, LAMBDA i : F[i].audioBitrate # 0))
    IN IF declared # 0 THEN declared ELSE First(af)

\* POST /api/download with format 'audio' selects audioFormat
AudioSelect ==
    /\ audioPc = "idle"
    /\ audioFormat' = SelectAudioFormat(audioInfo)
    /\ audioPc' = "selected"
    /\ UNCHANGED audioInfo
    /\ UNCHANGED <<serverVars, selVars, fnameVars, relayVars, urlVars, histVars, ffVars, limVars, clientVars>>

InitAudio ==
    /\ ServerInit /\ SelIdle /\ FnameIdle /\ RelayIdle /\ UrlIdle /\ HistIdle /\ FfIdle /\ LimIdle /\ ClientIdle
    /\ audioInfo \in AudioLists
    /\ audioFormat = 0
    /\ audioPc = "idle"

NextAudio == AudioSelect

SpecAudio == InitAudio /\ [][NextAudio]_vars

(* -------------------------- filename generation ----------------------- *)
\* the character classes of the regular expressions: \w is [A-Za-z0-9_], \s is
\* white space
AsciiLetters ==
    {"a","b","c","d","e","f","g","h","i","j","k","l","m","n","o","p","q","r","s",
     "t","u","v","w","x","y","z","A","B","C","D","E","F","G","H","I","J","K","L",
     "M","N","O","P","Q","R","S","T","U","V","W","X","Y","Z"}
DigitChars == <<"0","1","2","3","4","5","6","7","8","9">>
AsciiDigits == {DigitChars[i] : i \in 1..10}
WordChars == AsciiLetters \cup AsciiDigits \cup {"_"}
SpaceChars == {" ", "\t", "\n"}

\* .replace(/[^\w\s-]/g, '')
StripOthers(t) ==
    SelectSeq(t, LAMBDA c : c \in WordChars \/ c \in SpaceChars \/ c = "-")

\* .replace(/\s+/g, '_'): every maximal run of white space becomes one '_'
\* variant: /\s/g, every white space character becomes a '_'
ReplaceSpaceRuns_EachSpace(t) ==
    [i \in 1..Len(t) |-> IF t[i] \in SpaceChars THEN "_" ELSE t[i]]

ReplaceSpaceRuns(t) ==
    LET ends == SelectSeq(Positions(t), LAMBDA i :
                    t[i] \notin SpaceChars \/ i = Len(t) \/ t[i + 1] \notin SpaceChars)
    IN [k \in 1..Len(ends) |-> IF t[ends[k]] \in SpaceChars THEN "_" ELSE t[ends[k]]]

\* .substring(0, n)
Substring0(t, n) == SubSeq(t, 1, Min(n, Len(t)))

\* const sanitizedTitle = title.replace(...).replace(...).substring(0, 100)
Sanitize(t) == Substring0(ReplaceSpaceRuns(StripOthers(t)), MaxStemLength)

\* the decimal digits of a number, as `${timestamp}` prints it
RECURSIVE NumberToString(_)
NumberToString(n) ==
    IF n < 10 THEN <<DigitChars[n + 1]>>
    ELSE NumberToString(n \div 10) \o <<DigitChars[(n % 10) + 1]>>

Extension(f) == IF f = "audio" THEN <<".", "m", "p", "3">> ELSE <<".", "m", "p", "4">>

\* POST /api/download generates the filename: timestamp is Date.now()
GenerateFilename ==
    /\ filename = <<>>
    /\ sanitizedTitle' = Sanitize(title)
    /\ filename' = Sanitize(title) \o <<"_">> \o NumberToString(now) \o Extension(format)
    /\ UNCHANGED <<title, format>>
    /\ UNCHANGED <<serverVars, selVars, audioVars, relayVars, urlVars, histVars, ffVars, limVars, clientVars>>

\* the characters titles are drawn from: a letter, a digit, '_', '-', two
\* kinds of white space, punctuation and a non-ASCII letter
TitleChars == {"a", "1", "_", "-", " ", "\t", "!", "é"}

ExampleTitle ==
    <<"O","f","f","i","c","i","a","l"," ","V","i","d","e","o","!"," ","#","1"," ",
      "(","2","0","2","4",")">>

\* titles: a run of letters of a length around the truncation point followed
\* by a short tail of arbitrary characters, and the title of the example
PadLengths == {0, MaxStemLength - 2, MaxStemLength - 1, MaxStemLength}
Pad(n) == [i \in 1..n |-> "a"]
Titles ==
    {Pad(n) \o tail : n \in PadLengths,
                      tail \in UNION {[1..k -> TitleChars] : k \in 0..MaxTitle}}
    \cup {ExampleTitle}

InitFname ==
    /\ ServerInit /\ SelIdle /\ AudioIdle /\ RelayIdle /\ UrlIdle /\ HistIdle /\ FfIdle /\ LimIdle /\ ClientIdle
    /\ title \in Titles
    /\ format \in {"audio", "video"}
    /\ sanitizedTitle = <<>>
    /\ filename = <<>>

NextFname == GenerateFilename

SpecFname == InitFname /\ [][NextFname]_vars

(* ------------------------------ relays -------------------------------- *)
\* res.status(s).json(...): writes the JSON body and ends the response; on a
\* response whose headers were sent it throws and writes nothing
SendJson(x, s) ==
    IF x.headersSent THEN [x EXCEPT !.jsonLate = TRUE, !.pc = "closed"]
    ELSE [x EXCEPT !.headersSent = TRUE, !.body = "json", !.status = s,
                   !.ended = TRUE, !.pc = "closed"]

\* catch (error) { if (!res.headersSent) res.status(500).json(...) }
GuardedCatch(x) ==
    IF ~x.headersSent THEN SendJson([x EXCEPT !.upstreamFailed = TRUE], 500)
    ELSE [x EXCEPT !.upstreamFailed = TRUE, !.pc = "closed"]

\* catch (error) { res.status(500).json(...) }
PlainCatch(x) == SendJson([x EXCEPT !.upstreamFailed = TRUE], 500)

\* stream.pipe(res) on a stream with or without an 'error' listener
Piping(x, hasListener) == [x EXCEPT !.pc = "piping", !.listener = hasListener]

\* the handler of a streaming route up to its first await, or to its end
RelayStart(r, c, route, urlOk) ==
    /\ alive
    /\ relay[r].pc = "idle"
    /\ LET x == [IdleRelay EXCEPT !.route = route, !.barred = GateRejects(c)]
       IN relay' = [relay EXCEPT ![r] =
              IF ~urlOk THEN SendJson(x, 400)
              ELSE IF route = "audio" THEN Piping(x, TRUE)
              ELSE IF route = "video" THEN [x EXCEPT !.pc = "getInfo", !.attempt = 1]
              ELSE IF route = "download-ffmpeg" THEN [x EXCEPT !.pc = "yt-dlp"]
              ELSE [x EXCEPT !.pc = "getVideoInfo"]]
    /\ UNCHANGED alive
    /\ UNCHANGED <<serverVars, selVars, audioVars, fnameVars, urlVars, histVars, ffVars, limVars, clientVars>>

\* GET /api/stream/video: an ytdl.getInfo call of the retry loop answers
InfoReply(r, ok) ==
    /\ alive
    /\ relay[r].pc = "getInfo"
    /\ relay' = [relay EXCEPT ![r] =
           IF ok THEN Piping(@, TRUE)
           ELSE IF @.attempt < 3 THEN [@ EXCEPT !.attempt = @ + 1]
           ELSE GuardedCatch(@)]
    /\ UNCHANGED alive
    /\ UNCHANGED <<serverVars, selVars, audioVars, fnameVars, urlVars, histVars, ffVars, limVars, clientVars>>

\* proxy routes: proxyService.getVideoInfo answers; a result without a format
\* that has a url throws 'No ... format available'
ResolveReply(r, o) ==
    /\ alive
    /\ relay[r].pc = "getVideoInfo"
    /\ relay' = [relay EXCEPT ![r] =
           IF o = "ok" THEN [@ EXCEPT !.pc = "fetch"] ELSE PlainCatch(@)]
    /\ UNCHANGED alive
    /\ UNCHANGED <<serverVars, selVars, audioVars, fnameVars, urlVars, histVars, ffVars, limVars, clientVars>>

\* proxy routes: fetch(format.url) answers; response.body is piped to res
FetchReply(r, o) ==
    /\ alive
    /\ relay[r].pc = "fetch"
    /\ relay' = [relay EXCEPT ![r] =
           IF o = "ok" THEN Piping(@, FALSE) ELSE PlainCatch(@)]
    /\ UNCHANGED alive
    /\ UNCHANGED <<serverVars, selVars, audioVars, fnameVars, urlVars, histVars, ffVars, limVars, clientVars>>

\* POST /api/download-ffmpeg: the yt-dlp strategies are over; on success the
\* output file is opened and piped to res
FfmpegDone(r, downloadSuccess) ==
    /\ alive
    /\ relay[r].pc = "yt-dlp"
    /\ relay' = [relay EXCEPT ![r] =
           IF downloadSuccess THEN Piping(@, FALSE)
           ELSE SendJson([@ EXCEPT !.upstreamFailed = TRUE], 503)]
    /\ UNCHANGED alive
    /\ UNCHANGED <<serverVars, selVars, audioVars, fnameVars, urlVars, histVars, ffVars, limVars, clientVars>>

\* a chunk of the upstream stream is written to res: the headers are sent
UpstreamData(r) ==
    /\ alive
    /\ relay[r].pc = "piping"
    /\ relay' = [relay EXCEPT ![r] =
           [@ EXCEPT !.headersSent = TRUE, !.body = "data", !.status = 200]]
    /\ UNCHANGED alive
    /\ UNCHANGED <<serverVars, selVars, audioVars, fnameVars, urlVars, histVars, ffVars, limVars, clientVars>>

\* the upstream stream ends: pipe ends res
UpstreamEnd(r) ==
    /\ alive
    /\ relay[r].pc = "piping"
    /\ relay' = [relay EXCEPT ![r] =
           [@ EXCEPT !.headersSent = TRUE, !.status = 200, !.ended = TRUE,
                     !.pc = "closed"]]
    /\ UNCHANGED alive
    /\ UNCHANGED <<serverVars, selVars, audioVars, fnameVars, urlVars, histVars, ffVars, limVars, clientVars>>

\* the 'error' listener of audioStream / videoStream
StreamErrorListener(x, blocked) ==
    IF ~x.headersSent
    THEN SendJson([x EXCEPT !.upstreamFailed = TRUE],
                  IF x.route = "audio" /\ blocked THEN 503 ELSE 500)
    ELSE [x EXCEPT !.upstreamFailed = TRUE, !.pc = "closed"]

\* the upstream stream emits 'error': the listener runs if there is one; an
\* 'error' event without a listener is thrown as an uncaught exception, which
\* ends the process and drops every connection that is still open; pipe does
\* not end res when its source fails
UpstreamError(r, blocked) ==
    /\ alive
    /\ relay[r].pc = "piping"
    /\ IF relay[r].listener
       THEN /\ relay' = [relay EXCEPT ![r] = StreamErrorListener(@, blocked)]
            /\ UNCHANGED alive
       ELSE /\ alive' = FALSE
            /\ relay' = [q \in RelayReqs |->
                   IF relay[q].pc = "idle" \/ relay[q].ended THEN relay[q]
                   ELSE [relay[q] EXCEPT !.dropped = TRUE, !.pc = "closed",
                                         !.upstreamFailed = (@ \/ q = r)]]
    /\ UNCHANGED <<serverVars, selVars, audioVars, fnameVars, urlVars, histVars, ffVars, limVars, clientVars>>

\* the client disconnects while the upstream stream is piped to res: res
\* emits 'close' and pipe unpipes it; no handler listens for the close of req
\* or res, and nothing destroys or aborts the upstream stream
ClientDisconnects(r) ==
    /\ alive
    /\ relay[r].pc = "piping"
    /\ relay' = [relay EXCEPT ![r] = [@ EXCEPT !.pc = "unpiped", !.clientGone = TRUE]]
    /\ UNCHANGED alive
    /\ UNCHANGED <<serverVars, selVars, audioVars, fnameVars, urlVars, histVars, ffVars, limVars, clientVars>>

\* the unpiped upstream stream is paused, not ended: the response that feeds
\* it goes on reading from the upstream location until its buffers are full
UpstreamBuffers(r) ==
    /\ alive
    /\ relay[r].pc = "unpiped"
    /\ relay[r].fetchedAfter < MaxBuffered
    /\ relay' = [relay EXCEPT ![r] = [@ EXCEPT !.fetchedAfter = @ + 1]]
    /\ UNCHANGED alive
    /\ UNCHANGED <<serverVars, selVars, audioVars, fnameVars, urlVars, histVars, ffVars, limVars, clientVars>>

\* the connection of an ended response is released
RelayClose(r) ==
    /\ alive
    /\ relay[r].pc = "closed"
    /\ relay[r].ended
    /\ relay' = [relay EXCEPT ![r] = IdleRelay]
    /\ UNCHANGED alive
    /\ UNCHANGED <<serverVars, selVars, audioVars, fnameVars, urlVars, histVars, ffVars, limVars, clientVars>>

InitRelay ==
    /\ ServerInit /\ SelIdle /\ AudioIdle /\ FnameIdle /\ UrlIdle /\ HistIdle /\ FfIdle /\ LimIdle /\ ClientIdle
    /\ RelayIdle

NextRelay ==
    \/ \E r \in RelayReqs, c \in Clients, route \in Routes, urlOk \in BOOLEAN :
          RelayStart(r, c, route, urlOk)
    \/ \E r \in RelayReqs, ok \in BOOLEAN : InfoReply(r, ok)
    \/ \E r \in RelayReqs, o \in {"ok", "fail", "noUrl"} : ResolveReply(r, o)
    \/ \E r \in RelayReqs, o \in {"ok", "throws", "notOk", "noBody"} : FetchReply(r, o)
    \/ \E r \in RelayReqs, ok \in BOOLEAN : FfmpegDone(r, ok)
    \/ \E r \in RelayReqs : UpstreamData(r)
    \/ \E r \in RelayReqs : UpstreamEnd(r)
    \/ \E r \in RelayReqs, blocked \in BOOLEAN : UpstreamError(r, blocked)
    \/ \E r \in RelayReqs : ClientDisconnects(r)
    \/ \E r \in RelayReqs : UpstreamBuffers(r)
    \/ \E r \in RelayReqs : RelayClose(r)

SpecRelay == InitRelay /\ [][NextRelay]_vars

(* ------------------------ identifier extraction ----------------------- *)
IdLength == 11

MinOf(S) == CHOOSE x \in S : \A y \in S : x <= y
MaxOf(S) == CHOOSE x \in S : \A y \in S : x >= y

\* the literal lit stands in s at position p
HasAt(s, p, lit) ==
    /\ p >= 1 /\ p + Len(lit) - 1 <= Len(s)
    /\ \A i \in 1..Len(lit) : s[p + i - 1] = lit[i]

\* IdLength characters of the set `class` stand in s at position p
RunAt(s, p, class) ==
    /\ p >= 1 /\ p + IdLength - 1 <= Len(s)
    /\ \A i \in p..(p + IdLength - 1) : s[i] \in class

\* the characters URLs are written with
UrlChars == AsciiLetters \cup AsciiDigits \cup {"_", "-", ".", ":", "/", "?", "&", "="}

\* [^"&?\/\s]: no white space and no quote occurs in UrlChars
CaptureClass == UrlChars \ {"&", "?", "/"}

\* [0-9A-Za-z_-]
IdChars == AsciiLetters \cup AsciiDigits \cup {"_", "-"}

\* [^\/]+\/.+\/ at q, then the capture: [^\/]+ ends at the first '/', and the
\* greedy .+ ends at the last '/' that the capture can follow
PathAlternative(s, q) ==
    LET slashes == {i \in q..Len(s) : s[i] = "/"}
        a == IF slashes = {} THEN 0 ELSE MinOf(slashes)
        B == {b \in slashes : a > q /\ b >= a + 2 /\ RunAt(s, b + 1, CaptureClass)}
    IN IF B = {} THEN 0 ELSE MaxOf(B) + 1

\* (?:v|e(?:mbed)?)\/ at q, then the capture
EmbedAlternative(s, q) ==
    IF HasAt(s, q, <<"v","/">>) /\ RunAt(s, q + 2, CaptureClass) THEN q + 2
    ELSE IF HasAt(s, q, <<"e","m","b","e","d","/">>) /\ RunAt(s, q + 6, CaptureClass) THEN q + 6
    ELSE IF HasAt(s, q, <<"e","/">>) /\ RunAt(s, q + 2, CaptureClass) THEN q + 2
    ELSE 0

\* .*[?&]v= at q, then the capture: the greedy .* ends at the last [?&]v=
\* that the capture can follow
QueryAlternative(s, q) ==
    LET C == {c \in q..Len(s) : /\ s[c] \in {"?", "&"}
                                /\ HasAt(s, c + 1, <<"v","=">>)
                                /\ RunAt(s, c + 3, CaptureClass)}
    IN IF C = {} THEN 0 ELSE MaxOf(C) + 3

\* where the capture group starts when the regular expression of
\* extractVideoId matches at position p of s, 0 when it does not match there
MatchAt(s, p) ==
    IF HasAt(s, p, <<"y","o","u","t","u","b","e",".","c","o","m","/">>)
    THEN LET q == p + 12
             m1 == PathAlternative(s, q)
             m2 == EmbedAlternative(s, q)
         IN IF m1 # 0 THEN m1 ELSE IF m2 # 0 THEN m2 ELSE QueryAlternative(s, q)
    ELSE IF HasAt(s, p, <<"y","o","u","t","u",".","b","e","/">>) /\ RunAt(s, p + 9, CaptureClass) THEN p + 9
    ELSE 0

\* url.match(regex): the leftmost match; match ? match[1] : null
extractVideoId(s) ==
    LET P == {p \in 1..Len(s) : MatchAt(s, p) # 0}
    IN IF P = {} THEN <<>>
       ELSE SubSeq(s, MatchAt(s, MinOf(P)), MatchAt(s, MinOf(P)) + IdLength - 1)

\* url.match(/(?:v=|\/)([0-9A-Za-z_-]{11})/)?.[1] || Date.now().toString()
ffmpegExtractVideoId(s, t) ==
    LET M(p) == IF HasAt(s, p, <<"v","=">>) /\ RunAt(s, p + 2, IdChars) THEN p + 2
                ELSE IF HasAt(s, p, <<"/">>) /\ RunAt(s, p + 1, IdChars) THEN p + 1
                ELSE 0
        P == {p \in 1..Len(s) : M(p) # 0}
    IN IF P = {} THEN NumberToString(t)
       ELSE SubSeq(s, M(MinOf(P)), M(MinOf(P)) + IdLength - 1)

\* ProxyService.tryAlternativeServices extracts the identifier
ExtractVideoId ==
    /\ "proxyService" \notin urlPc
    /\ videoId' = extractVideoId(url)
    /\ urlPc' = urlPc \cup {"proxyService"}
    /\ UNCHANGED <<url, contentId, ffmpegVideoId>>
    /\ UNCHANGED <<serverVars, selVars, audioVars, fnameVars, relayVars, histVars, ffVars, limVars, clientVars>>

\* POST /api/download-ffmpeg extracts the identifier
FfmpegExtractVideoId ==
    /\ "download-ffmpeg" \notin urlPc
    /\ ffmpegVideoId' = ffmpegExtractVideoId(url, now)
    /\ urlPc' = urlPc \cup {"download-ffmpeg"}
    /\ UNCHANGED <<url, contentId, videoId>>
    /\ UNCHANGED <<serverVars, selVars, audioVars, fnameVars, relayVars, histVars, ffVars, limVars, clientVars>>

\* identifiers, hosts and the parameters that can follow the identifier
Ids == {<<"d","Q","w","4","w","9","W","g","X","c","Q">>,
        <<"a","_","B","-","c","_","D","-","e","_","F">>}
Hosts == {<<"h","t","t","p","s",":","/","/","w","w","w",".","y","o","u","t","u","b","e",".","c","o","m","/">>,
          <<"h","t","t","p","s",":","/","/","m",".","y","o","u","t","u","b","e",".","c","o","m","/">>,
          <<"h","t","t","p",":","/","/","y","o","u","t","u","b","e",".","c","o","m","/">>}
Shapes == {"watch", "watchLater", "embed", "v", "short"}
Trailers == {<<>>,
             <<"t","=","4","2">>,
             <<"l","i","s","t","=","P","L","x","0","_","y","-","2">>,
             <<"o","r","i","g","i","n","=","h","t","t","p","s",":","/","/","e","x","a","m","p","l","e",".","c","o","m">>}

\* the URL of the content id in a shape, with a trailing parameter
UrlOf(host, shape, id, trailer) ==
    LET more(sep) == IF trailer = <<>> THEN <<>> ELSE <<sep>> \o trailer
    IN CASE shape = "watch" -> host \o <<"w","a","t","c","h","?","v","=">> \o id \o more("&")
         [] shape = "watchLater" ->
                host \o <<"w","a","t","c","h","?","f","e","a","t","u","r","e","=","s","h","a","r","e","&","v","=">> \o id \o more("&")
         [] shape = "embed" -> host \o <<"e","m","b","e","d","/">> \o id \o more("?")
         [] shape = "v" -> host \o <<"v","/">> \o id \o more("?")
         [] OTHER -> <<"h","t","t","p","s",":","/","/","y","o","u","t","u",".","b","e","/">> \o id \o more("?")

InitUrl ==
    /\ ServerInit /\ SelIdle /\ AudioIdle /\ FnameIdle /\ RelayIdle /\ HistIdle /\ FfIdle /\ LimIdle /\ ClientIdle
    /\ contentId \in Ids
    /\ \E host \in Hosts, shape \in Shapes, trailer \in Trailers :
          url = UrlOf(host, shape, contentId, trailer)
    /\ videoId = <<>>
    /\ ffmpegVideoId = <<>>
    /\ urlPc = {}

NextUrl == ExtractVideoId \/ FfmpegExtractVideoId

SpecUrl == InitUrl /\ [][NextUrl]_vars

(* ------------------------------ history ------------------------------- *)
HistoryIds == 1..(MaxHistory + 1)

\* x || null
OrNull(x) == IF x = "" THEN "null" ELSE x

\* request bodies that insertDownloadHistorySchema accepts
InsertDownloads ==
    [title : {"a", "b"}, url : {"u"}, format : {"audio", "video"},
     quality : {"", "720p"}, fileSize : {""}, thumbnail : {""},
     status : {"completed", "failed"}]

\* .values({ ...insertDownload, quality: ... || null, ... }) with the id and
\* downloadedAt defaults of the table
Row(id, d, t) ==
    [id |-> id, title |-> d.title, url |-> d.url, format |-> d.format,
     quality |-> OrNull(d.quality), fileSize |-> OrNull(d.fileSize),
     thumbnail |-> OrNull(d.thumbnail), status |-> d.status, downloadedAt |-> t]

\* variant: the delete has no where clause
DeleteWhereId_All(table, id) == {}

\* db.delete(downloadHistoryTable).where(<id equals id>)
DeleteWhereId(table, id) == {h \in table : h.id # id}

Served(op, id, ok, status, body) ==
    [op |-> op, id |-> id, ok |-> ok, status |-> status, body |-> body,
     before |-> Cardinality(history)]

\* GET /api/downloads: every row (their order is not recorded here)
GetDownloadHistory(ok) ==
    /\ lastOp' = IF ok THEN Served("get", 0, TRUE, 200, history)
                 ELSE Served("get", 0, FALSE, 500, {})
    /\ UNCHANGED history
    /\ UNCHANGED <<serverVars, selVars, audioVars, fnameVars, relayVars, urlVars, ffVars, limVars, clientVars>>

\* POST /api/downloads: a body the schema rejects is answered with 400; the
\* insert gives the row a new primary key
AddDownloadHistory(valid, d, id, ok) ==
    /\ Cardinality(history) < MaxHistory
    /\ id \notin {h.id : h \in history}
    /\ IF ~valid
       THEN /\ lastOp' = Served("add", 0, TRUE, 400, {})
            /\ UNCHANGED history
       ELSE IF ok
       THEN /\ history' = history \cup {Row(id, d, now)}
            /\ lastOp' = Served("add", id, TRUE, 200, {Row(id, d, now)})
       ELSE /\ lastOp' = Served("add", 0, FALSE, 500, {})
            /\ UNCHANGED history
    /\ UNCHANGED <<serverVars, selVars, audioVars, fnameVars, relayVars, urlVars, ffVars, limVars, clientVars>>

\* DELETE /api/downloads/:id
DeleteDownloadHistory(id, ok) ==
    /\ IF ok
       THEN /\ history' = DeleteWhereId(history, id)
            /\ lastOp' = Served("delete", id, TRUE, 200, {})
       ELSE /\ lastOp' = Served("delete", id, FALSE, 500, {})
            /\ UNCHANGED history
    /\ UNCHANGED <<serverVars, selVars, audioVars, fnameVars, relayVars, urlVars, ffVars, limVars, clientVars>>

\* DELETE /api/downloads
ClearDownloadHistory(ok) ==
    /\ IF ok
       THEN /\ history' = {}
            /\ lastOp' = Served("clear", 0, TRUE, 200, {})
       ELSE /\ lastOp' = Served("clear", 0, FALSE, 500, {})
            /\ UNCHANGED history
    /\ UNCHANGED <<serverVars, selVars, audioVars, fnameVars, relayVars, urlVars, ffVars, limVars, clientVars>>

InitHist ==
    /\ ServerInit /\ SelIdle /\ AudioIdle /\ FnameIdle /\ RelayIdle /\ UrlIdle /\ FfIdle /\ LimIdle /\ ClientIdle
    /\ HistIdle

NextHist ==
    \/ \E ok \in BOOLEAN : GetDownloadHistory(ok)
    \/ \E valid, ok \in BOOLEAN, d \in InsertDownloads, id \in HistoryIds :
          AddDownloadHistory(valid, d, id, ok)
    \/ \E id \in HistoryIds, ok \in BOOLEAN : DeleteDownloadHistory(id, ok)
    \/ \E ok \in BOOLEAN : ClearDownloadHistory(ok)

SpecHist == InitHist /\ [][NextHist]_vars

(* ------------------------ production and development ------------------ *)
\* the ages, against Date.now(), of the timestamps of a recorded history: the
\* same millisecond, the two minimum intervals and either side of the windows
GateAges == {0, minIntervalDev, minIntervalProd, timeWindowDev - 1, timeWindowDev, timeWindowProd}
GateTimes == {serverStartTime + timeWindowProd, serverStartTime + timeWindowProd + 1}

\* addRequest pushes Date.now(): an entry of requestTracker is in time order
IsSorted(h) == \A i \in 1..(Len(h) - 1) : h[i] <= h[i + 1]
GateHistories(t) ==
    {h \in UNION {[1..n -> {t - a : a \in GateAges}] : n \in 0..MaxGateHistory} : IsSorted(h)}

\* getRateLimitInfo and the two checks of the gate, as a function of
\* NODE_ENV === 'production', the client's entry and Date.now()
GatePasses(p, requests, t) ==
    LET recent == SelectSeq(requests, LAMBDA time : t - time < timeWindowIn(p))
    IN /\ ~(Len(recent) > maxRequestsIn(p))
       /\ ~(t - LastRequest(recent) < minIntervalIn(p))

\* the gate decides on one entry at one time under either setting
ApplyGate ==
    /\ ~gateVerdict.applied
    /\ gateVerdict' = [applied |-> TRUE,
                       prod |-> GatePasses(TRUE, gateRequests, gateNow),
                       dev |-> GatePasses(FALSE, gateRequests, gateNow)]
    /\ UNCHANGED <<gateRequests, gateNow>>
    /\ UNCHANGED <<serverVars, selVars, audioVars, fnameVars, relayVars, urlVars, histVars, ffVars, clientVars>>

(* --------------------------- FFmpeg download -------------------------- *)
\* what yt-dlp writes into the temp directory for a request: the output file
\* at outputPath, the metadata file of --write-info-json next to it, and the
\* partial download it works on
FileKinds == {"output", "infoJson", "part"}

\* baseArgs holds --write-info-json: strategies 1 to 3 are built on baseArgs
WritesInfoJson(strategy) == strategy <= 3

\* the files strategy number `strategy` can have left when it exits
LeftBy(strategy, code) ==
    IF code = 0
    THEN {IF WritesInfoJson(strategy) THEN {"output", "infoJson"} ELSE {"output"}}
    ELSE SUBSET (IF WritesInfoJson(strategy) THEN FileKinds ELSE {"output", "part"})

\* the files of those kinds at the outputPath of request r
FilesOf(r, kinds) == {[path |-> ff[r].video, kind |-> k] : k \in kinds}

\* the server process is up: no uncaught exception has ended it
FfUp == \A q \in FfReqs : ff[q].outcome # "crashed"

\* variant: the loop goes on after a success
LoopContinues_IgnoreSuccess(i, downloadSuccess) == i < NumStrategies

\* i < strategies.length && !downloadSuccess
LoopContinues(i, downloadSuccess) == i < NumStrategies /\ ~downloadSuccess

\* spawn(command, args) is called without options: no timeout is set
SpawnTimeout == 0

\* spawn('yt-dlp', strategies[i])
SpawnStrategy(x) == [x EXCEPT !.pc = "running", !.spawned = Append(@, x.i + 1),
                              !.timeout = SpawnTimeout]

\* i++, the loop condition, and what follows the loop: the 503 answer, or the
\* spawn of yt-dlp --get-title
NextIteration(x) ==
    LET y == [x EXCEPT !.i = @ + 1]
    IN IF LoopContinues(y.i, y.downloadSuccess) THEN SpawnStrategy(y)
       ELSE IF ~y.downloadSuccess
       THEN [y EXCEPT !.pc = "finished", !.status = 503, !.outcome = "allFailed"]
       ELSE [y EXCEPT !.pc = "title", !.timeout = SpawnTimeout]

\* the handler up to its first await, access(tempDir)
FfReceive(r, c, hasUrl, video) ==
    /\ FfUp
    /\ ff[r].pc = "idle"
    /\ ff' = [ff EXCEPT ![r] =
           IF ~hasUrl THEN [@ EXCEPT !.pc = "finished", !.status = 400, !.outcome = "noUrl"]
           ELSE [@ EXCEPT !.pc = "tempDir", !.video = video, !.barred = GateRejects(c)]]
    /\ UNCHANGED tempFiles
    /\ UNCHANGED <<serverVars, selVars, audioVars, fnameVars, relayVars, urlVars, histVars, limVars, clientVars>>

\* the temp directory is there: the loop is entered
FfTempDir(r) ==
    /\ FfUp
    /\ ff[r].pc = "tempDir"
    /\ ff' = [ff EXCEPT ![r] =
           IF LoopContinues(@.i, @.downloadSuccess) THEN SpawnStrategy(@) ELSE @]
    /\ UNCHANGED tempFiles
    /\ UNCHANGED <<serverVars, selVars, audioVars, fnameVars, relayVars, urlVars, histVars, limVars, clientVars>>

\* the yt-dlp process of the current strategy closes (or could not be
\* spawned): on code 0 downloadSuccess is set; otherwise the catch block
\* unlinks outputPath if it exists and, before every strategy but the last,
\* waits 2 seconds
FfExit(r, code, left) ==
    /\ FfUp
    /\ ff[r].pc = "running" /\ ~ff[r].hung
    /\ left \in LeftBy(ff[r].i + 1, code)
    /\ IF code = 0
       THEN /\ tempFiles' = tempFiles \cup FilesOf(r, left)
            /\ ff' = [ff EXCEPT ![r] =
                   NextIteration([@ EXCEPT !.downloadSuccess = TRUE,
                                           !.exits = Append(@, "succeeded")])]
       ELSE /\ tempFiles' = (tempFiles \cup FilesOf(r, left)) \ FilesOf(r, {"output"})
            /\ ff' = [ff EXCEPT ![r] =
                   LET x == [@ EXCEPT !.exits = Append(@, "failed")]
                   IN IF x.i < NumStrategies - 1 THEN [x EXCEPT !.pc = "delay"]
                      ELSE NextIteration(x)]
    /\ UNCHANGED <<serverVars, selVars, audioVars, fnameVars, relayVars, urlVars, histVars, limVars, clientVars>>

\* the 2 second wait is over
FfDelayOver(r) ==
    /\ FfUp
    /\ ff[r].pc = "delay"
    /\ ff' = [ff EXCEPT ![r] = NextIteration(@)]
    /\ UNCHANGED tempFiles
    /\ UNCHANGED <<serverVars, selVars, audioVars, fnameVars, relayVars, urlVars, histVars, limVars, clientVars>>

\* the yt-dlp process the request awaits hangs: nothing but the 'close' and
\* 'error' events of the process settles the promise the handler awaits
FfHang(r) ==
    /\ FfUp
    /\ ff[r].pc \in {"running", "title"} /\ ~ff[r].hung
    /\ ff' = [ff EXCEPT ![r] = [@ EXCEPT !.hung = TRUE]]
    /\ UNCHANGED tempFiles
    /\ UNCHANGED <<serverVars, selVars, audioVars, fnameVars, relayVars, urlVars, histVars, limVars, clientVars>>

\* yt-dlp --get-title closes, with a title or not: the headers are set and
\* fs.createReadStream(outputPath) is piped to res
FfTitle(r) ==
    /\ FfUp
    /\ ff[r].pc = "title" /\ ~ff[r].hung
    /\ ff' = [ff EXCEPT ![r] = [@ EXCEPT !.pc = "streaming"]]
    /\ UNCHANGED tempFiles
    /\ UNCHANGED <<serverVars, selVars, audioVars, fnameVars, relayVars, urlVars, histVars, limVars, clientVars>>

\* fileStream emits 'end': the file was read to its end, and the unlink is
\* put on a 1 second timer
FfStreamEnd(r) ==
    /\ FfUp
    /\ ff[r].pc = "streaming"
    /\ ff' = [ff EXCEPT ![r] = [@ EXCEPT !.pc = "unlinkTimer", !.status = 200]]
    /\ UNCHANGED tempFiles
    /\ UNCHANGED <<serverVars, selVars, audioVars, fnameVars, relayVars, urlVars, histVars, limVars, clientVars>>

\* the timer fires: fs.unlink(outputPath)
FfUnlink(r) ==
    /\ FfUp
    /\ ff[r].pc = "unlinkTimer"
    /\ tempFiles' = tempFiles \ FilesOf(r, {"output"})
    /\ ff' = [ff EXCEPT ![r] = [@ EXCEPT !.pc = "finished", !.outcome = "streamed"]]
    /\ UNCHANGED <<serverVars, selVars, audioVars, fnameVars, relayVars, urlVars, histVars, limVars, clientVars>>

\* the client disconnects while the file is piped: res is closed, fileStream
\* is unpiped and never emits 'end'
FfClientGone(r) ==
    /\ FfUp
    /\ ff[r].pc = "streaming"
    /\ ff' = [ff EXCEPT ![r] = [@ EXCEPT !.pc = "finished", !.status = 200,
                                         !.outcome = "disconnected"]]
    /\ UNCHANGED tempFiles
    /\ UNCHANGED <<serverVars, selVars, audioVars, fnameVars, relayVars, urlVars, histVars, limVars, clientVars>>

\* fileStream emits 'error': it has no 'error' listener, the error is thrown
\* as an uncaught exception and the process ends with every request in it
FfStreamError(r) ==
    /\ FfUp
    /\ ff[r].pc = "streaming"
    /\ ff' = [q \in FfReqs |->
           IF q = r THEN [ff[q] EXCEPT !.pc = "finished", !.outcome = "crashed"]
           ELSE IF ff[q].pc \in {"idle", "finished"} THEN ff[q]
           ELSE [ff[q] EXCEPT !.pc = "finished", !.outcome = "dropped"]]
    /\ UNCHANGED tempFiles
    /\ UNCHANGED <<serverVars, selVars, audioVars, fnameVars, relayVars, urlVars, histVars, limVars, clientVars>>

InitFfmpeg ==
    /\ ServerInit /\ SelIdle /\ AudioIdle /\ FnameIdle /\ RelayIdle /\ UrlIdle /\ HistIdle /\ ClientIdle
    /\ LimIdle /\ ClientIdle
    /\ FfIdle

NextFfmpeg ==
    \/ \E r \in FfReqs, c \in Clients, hasUrl \in BOOLEAN, video \in FfVideos :
          FfReceive(r, c, hasUrl, video)
    \/ \E r \in FfReqs : FfTempDir(r)
    \/ \E r \in FfReqs, code \in {0, 1}, left \in SUBSET FileKinds : FfExit(r, code, left)
    \/ \E r \in FfReqs : FfDelayOver(r)
    \/ \E r \in FfReqs : FfHang(r)
    \/ \E r \in FfReqs : FfTitle(r)
    \/ \E r \in FfReqs : FfStreamEnd(r)
    \/ \E r \in FfReqs : FfUnlink(r)
    \/ \E r \in FfReqs : FfClientGone(r)
    \/ \E r \in FfReqs : FfStreamError(r)

SpecFfmpeg == InitFfmpeg /\ [][NextFfmpeg]_vars

\* a client's POST /api/download requests, and its requests to the streaming
\* routes and to POST /api/download-ffmpeg up to the start of acquisition
NextUngated ==
    \/ \E r \in Reqs : Receive(r, "ip1", "valid")
    \/ \E r \in Reqs : MirrorReply(r, "okFormats")
    \/ \E r \in Reqs : Close(r)
    \/ \E d \in PairTickSteps : Tick(MaxTicksPair, d)
    \/ \E r \in Reqs, route \in Routes : RelayStart(r, "ip1", route, TRUE)
    \/ \E r \in Reqs : FfReceive(r, "ip1", TRUE, "v1")
    \/ \E r \in Reqs : FfTempDir(r)

SpecUngated == Init /\ [][NextUngated]_vars

InitLimits ==
    /\ ServerInit /\ SelIdle /\ AudioIdle /\ FnameIdle /\ RelayIdle /\ UrlIdle /\ HistIdle /\ ClientIdle
    /\ FfIdle
    /\ gateNow \in GateTimes
    /\ gateRequests \in GateHistories(gateNow)
    /\ gateVerdict = NoVerdict

NextLimits == ApplyGate

SpecLimits == InitLimits /\ [][NextLimits]_vars

(* ------------------------- Downloader client -------------------------- *)
\* how POST /api/download can answer the client
DownloadAnswers == {"success", "rateLimited", "failed"}

\* variant: apiRequest resolves whatever the status, onSuccess always runs
Settles_AlwaysSuccess(answer) == "onSuccess"

\* mutationFn: apiRequest rejects on an answer that is not ok, and the
\* mutation then runs onError with the server's message; on success it runs
\* onSuccess with the parsed body
Settles(answer) == IF answer = "success" THEN "onSuccess" ELSE "onError"

\* downloadMutation.isPending: the mutation the observer follows has not settled
IsPending ==
    /\ currentMutation # 0
    /\ mutations[currentMutation].pc \in {"posting", "history", "historyStored"}

\* downloadMutation.reset() on a mutation whose POST /api/download is in
\* flight: the observer lets go of it; the request and the callbacks given to
\* useMutation stay as they are
Detached(x) == [x EXCEPT !.cancelled = TRUE]

\* handleDownload: with the inputs in order, setIsDownloading(true) and
\* downloadMutation.mutate; otherwise a toast and nothing else
HandleDownload(m, inputOk) ==
    /\ ~isDownloading /\ ~IsPending
    /\ mutations[m].pc = "none"
    /\ \A k \in Mutations : k < m => mutations[k].pc # "none"
    /\ IF inputOk
       THEN /\ isDownloading' = TRUE
            /\ currentMutation' = m
            /\ mutations' = [mutations EXCEPT ![m] = [@ EXCEPT !.pc = "posting"]]
       ELSE UNCHANGED clientVars
    /\ UNCHANGED <<serverVars, selVars, audioVars, fnameVars, relayVars, urlVars, histVars, ffVars, limVars>>

\* POST /api/download answers: onSuccess starts with POST /api/downloads,
\* onError ends with setIsDownloading(false)
DownloadAnswer(m, answer) ==
    /\ mutations[m].pc = "posting"
    /\ IF Settles(answer) = "onSuccess"
       THEN /\ mutations' = [mutations EXCEPT ![m] = [@ EXCEPT !.pc = "history", !.answer = answer]]
            /\ UNCHANGED isDownloading
       ELSE /\ mutations' = [mutations EXCEPT ![m] = [@ EXCEPT !.pc = "settled", !.answer = answer]]
            /\ isDownloading' = FALSE
    /\ UNCHANGED currentMutation
    /\ UNCHANGED <<serverVars, selVars, audioVars, fnameVars, relayVars, urlVars, histVars, ffVars, limVars>>

\* POST /api/downloads: storage.addDownloadHistory has stored the record
HistoryStored(m) ==
    /\ mutations[m].pc = "history"
    /\ mutations' = [mutations EXCEPT ![m] = [@ EXCEPT !.pc = "historyStored", !.recorded = TRUE]]
    /\ UNCHANGED <<isDownloading, currentMutation>>
    /\ UNCHANGED <<serverVars, selVars, audioVars, fnameVars, relayVars, urlVars, histVars, ffVars, limVars>>

\* POST /api/downloads answers: on an ok answer onSuccess goes on to click the
\* link to downloadUrl; an answer that is not ok makes apiRequest reject,
\* onSuccess ends there and onError runs; both end with setIsDownloading(false)
HistoryAnswer(m, ok) ==
    /\ mutations[m].pc \in {"history", "historyStored"}
    /\ ok => mutations[m].pc = "historyStored"
    /\ mutations' = [mutations EXCEPT ![m] = [@ EXCEPT !.pc = "settled", !.clicked = ok]]
    /\ isDownloading' = FALSE
    /\ UNCHANGED currentMutation
    /\ UNCHANGED <<serverVars, selVars, audioVars, fnameVars, relayVars, urlVars, histVars, ffVars, limVars>>

\* ProgressTracker onCancel: setIsDownloading(false); downloadMutation.reset()
OnCancel ==
    /\ isDownloading
    /\ isDownloading' = FALSE
    /\ currentMutation' = 0
    /\ mutations' = [m \in Mutations |->
           IF m = currentMutation /\ mutations[m].pc = "posting"
           THEN Detached(mutations[m]) ELSE mutations[m]]
    /\ UNCHANGED <<serverVars, selVars, audioVars, fnameVars, relayVars, urlVars, histVars, ffVars, limVars>>

InitClient ==
    /\ ServerInit /\ SelIdle /\ AudioIdle /\ FnameIdle /\ RelayIdle /\ UrlIdle /\ HistIdle
    /\ LimIdle /\ FfIdle
    /\ ClientIdle

NextClient ==
    \/ \E m \in Mutations, inputOk \in BOOLEAN : HandleDownload(m, inputOk)
    \/ \E m \in Mutations, answer \in DownloadAnswers : DownloadAnswer(m, answer)
    \/ \E m \in Mutations : HistoryStored(m)
    \/ \E m \in Mutations, ok \in BOOLEAN : HistoryAnswer(m, ok)
    \/ OnCancel

SpecClient == InitClient /\ [][NextClient]_vars

(* ====================== rate-limit gate (SpecGate) ==================== *)
\* a step in which POST /api/download is received and decided by the gate
GateStep(r) == req[r].pc = "idle" /\ req'[r].pc # "idle"

\* the request of slot r was answered 429 by the gate and started nothing
Rejected(q) == q.pc = "done" /\ q.resp.status = 429 /\ q.mi = 0 /\ q.ytdlp = 0

\* C1: in production, a valid request of a client that already has 5 accepted
\* requests inside the window, sent at least the minimum interval after the
\* previous one, is rejected with HTTP 429.
C1_SixthRequestRejected ==
    [][\A r \in Reqs :
         LET recent == RecentRequests(requestTracker[req'[r].client], now)
         IN (/\ GateStep(r)
             /\ isProduction
             /\ req'[r].url # "invalid"
             /\ Len(recent) = maxRequestsProd
             /\ now - recent[Len(recent)] >= minIntervalProd)
            => Rejected(req'[r])]_vars

\* C2: once the window length has elapsed since every recorded request of a
\* client, its next valid request finds a count of 0 and passes the gate: the
\* table then holds that request's timestamp alone.
C2_WindowElapsedResets ==
    [][\A r \in Reqs :
         LET c == req'[r].client
             requests == requestTracker[c]
         IN (/\ GateStep(r)
             /\ req'[r].url # "invalid"
             /\ Len(requests) > 0
             /\ \A i \in 1..Len(requests) : now - requests[i] >= timeWindow)
            => /\ req'[r].pc \in {"mirror", "ytdlp"}
               /\ req'[r].resp = NoResponse
               /\ req'[r].pruned = Len(requests)
               /\ requestTracker'[c] = <<now>>]_vars

\* a request passed the gate after all of its client's timestamps had expired
C2_Witness ==
    \E r \in Reqs :
        /\ req[r].pc \in {"mirror", "ytdlp"}
        /\ req[r].pruned > 0
        /\ Len(requestTracker[req[r].client]) = 1

\* C3: a valid request arriving less than the minimum interval after the
\* client's last accepted request is answered 429 and starts no strategy, and
\* a client with no recorded request is not rejected.
C3_MinimumInterval ==
    [][\A r \in Reqs :
         LET c == req'[r].client
             requests == requestTracker[c]
         IN (GateStep(r) /\ req'[r].url # "invalid")
            => /\ (Len(requests) > 0 /\ now - requests[Len(requests)] < minInterval)
                    => (Rejected(req'[r]) /\ requestTracker'[c] = RecentRequests(requests, now))
               /\ Len(requests) = 0
                    => (req'[r].pc \in {"mirror", "ytdlp"} /\ requestTracker'[c] = <<now>>)]_vars

\* the gate answered "please wait ... between downloads"
C3_Witness ==
    \E r \in Reqs :
        /\ req[r].resp = WaitBetweenResponse
        /\ Len(requestTracker[req[r].client]) > 0
        /\ \E c \in Clients : Len(requestTracker[c]) = 0

(* ================== POST /api/download responses (Spec) =============== *)
RateLimitedResponse(resp) == resp.status = 429
BlockedBySourceResponse(resp) ==
    resp \in {BlockingResponse, DetectedResponse, VerificationResponse}

\* C4: every RateLimited response of the gate and every BlockedBySource
\* response carries a wait-time message and a numeric retryAfter, and the
\* request is finished (it is not retried by the server).
C4_RetryAfterOnRateLimitAndBlock ==
    \A r \in Reqs :
        (RateLimitedResponse(req[r].resp) \/ BlockedBySourceResponse(req[r].resp))
        => /\ req[r].resp.message # ""
           /\ Len(req[r].resp.retryAfter) = 1
           /\ req[r].pc = "done"

\* every direct strategy of the request has failed
LadderExhausted(q) == q.pc = "done" /\ Len(q.attempts) = 4

\* C5: when every strategy has failed, the response depends on the last
\* failure only: blocked-by-source when the last error matches a blocking
\* phrase, the generic failure otherwise.
C5_ClassifiedByLastFailure ==
    \A r \in Reqs :
        LadderExhausted(req[r])
        => IF isBlocked(req[r].attempts[4])
           THEN BlockedBySourceResponse(req[r].resp)
           ELSE req[r].resp = FailedResponse

\* C6: when strategies 1 to 4 have all failed with blocking-classified errors
\* and the external extraction tool, called as strategy 5, succeeds, the
\* request is answered with a success.  (Whatever the tool would answer, the
\* response is the one sent when strategy 4 fails.)
C6_FifthStrategyResult ==
    \A r \in Reqs :
        (/\ LadderExhausted(req[r])
         /\ \A i \in 1..4 : isBlocked(req[r].attempts[i]))
        => \A tool \in Outcomes :
               tool = "okFormats" => req[r].resp = SuccessResponse

\* C7: the terminal failure is answered only after every mirror endpoint,
\* yt-dlp without a proxy, every proxy of the list and the four direct
\* strategies have been tried.
C7_TerminalOnlyAfterAllTried ==
    \A r \in Reqs :
        (req[r].pc = "done" /\ req[r].resp.status \in {500, 503} /\ req[r].url = "valid")
        => /\ req[r].mi = NumEndpoints
           /\ req[r].ytdlp = 1
           /\ req[r].pi = Len(req[r].proxies)
           /\ Len(req[r].attempts) = 4

\* C18: a POST /api/download whose URL is not a source-site URL is answered
\* with 400 at once: the rate-limit table and the proxy list are unchanged and
\* no mirror, yt-dlp, proxy or direct strategy call is ever made for it.
C18_InvalidUrlFailsFast ==
    [][\A r \in Reqs :
          /\ (GateStep(r) /\ req'[r].url = "invalid")
             => /\ req'[r].pc = "done"
                /\ req'[r].resp.status = 400
                /\ UNCHANGED <<requestTracker, workingProxies, lastProxyRefresh>>
          /\ (req[r].pc # "idle" /\ req[r].url = "invalid")
             => /\ req[r].pc = "done"
                /\ req[r].mi = 0 /\ req[r].ytdlp = 0 /\ req[r].pi = 0
                /\ req[r].attempts = <<>>]_vars

\* an invalid URL was rejected for a client that has accepted requests on record
C18_Witness ==
    \E r \in Reqs :
        /\ req[r].pc = "done" /\ req[r].url = "invalid"
        /\ req[r].resp.status = 400
        /\ requestTracker[req[r].client] # <<>>

(* ===================== format selector (SpecSel) ====================== *)
Combined(l) == [qualityLabel |-> l, height |-> HeightOf(l), hasVideo |-> TRUE, hasAudio |-> TRUE]
Range(F) == {F[i] : i \in 1..Len(F)}
VideoPositions(F) == {i \in 1..Len(F) : F[i].hasVideo}
HasLabel(F, l) == \E i \in VideoPositions(F) : F[i].qualityLabel = l

\* C8: a 4k request against exactly a 1080p combined and a 720p combined
\* encoding selects the 1080p combined encoding, in both endpoints.
C8_FourKFallsBackTo1080Combined ==
    (quality = "4k" /\ Range(formats) = {Combined("1080p"), Combined("720p")})
    => /\ "download" \in selPc => (videoFormat # 0 /\ formats[videoFormat] = Combined("1080p"))
       /\ "stream" \in selPc => (selectedFormat # 0 /\ formats[selectedFormat] = Combined("1080p"))

C8_Witness ==
    /\ quality = "4k"
    /\ formats = <<Combined("720p"), Combined("1080p")>>
    /\ selPc = {"download", "stream"}
    /\ videoFormat = 2
    /\ selectedFormat = 2

\* C9: an encoding with the requested label is selected whenever one exists;
\* else a 4k request selects a 1440p encoding when one exists, else a 1080p
\* one when one exists, else the highest encoding; a 360p request with no
\* 360p encoding selects the lowest encoding.
C9_ExactThenLadder ==
    ("download" \in selPc /\ VideoPositions(formats) # {})
    => LET F == formats
           got == IF videoFormat = 0 THEN "" ELSE F[videoFormat].qualityLabel
           h == IF videoFormat = 0 THEN 0 ELSE F[videoFormat].height
       IN /\ (quality # "highest" /\ HasLabel(F, qualityFilter(quality)))
                => got = qualityFilter(quality)
          /\ (quality = "4k" /\ ~HasLabel(F, "2160p"))
                => IF HasLabel(F, "1440p") THEN got = "1440p"
                   ELSE IF HasLabel(F, "1080p") THEN got = "1080p"
                   ELSE \A i \in VideoPositions(F) : F[i].height <= h
          /\ (quality = "360p" /\ ~HasLabel(F, "360p"))
                => \A i \in VideoPositions(F) : F[i].height >= h

\* C10: for a request of tier 720p or below, a video-only encoding is selected
\* only when no combined encoding has the same label.
C10_CombinedPreferredLowTiers ==
    ("download" \in selPc /\ quality \in {"720p", "480p", "360p"} /\ videoFormat # 0)
    => (VideoOnly(formats, videoFormat)
        => ~\E j \in 1..Len(formats) :
               /\ formats[j].hasVideo /\ formats[j].hasAudio
               /\ formats[j].qualityLabel = formats[videoFormat].qualityLabel)

\* C11: when no encoding has video, the selection yields no encoding and the
\* caller answers with an error: POST /api/download sends no success response
\* and GET /api/stream/video opens no relay.
C11_NoFormatAvailable ==
    (\A i \in 1..Len(formats) : ~formats[i].hasVideo)
    => /\ ("download" \in selPc
           => videoFormat = 0 /\ selOut.download.status # 200)
       /\ ("stream" \in selPc
           => selectedFormat = 0 /\ selOut.stream # "relay")

\* the list F in the order given by the permutation p of its positions
Reordered(F, p) == [i \in 1..Len(F) |-> F[p[i]]]

\* C13: the selection depends on the set of encodings only: listing the same
\* encodings in any other order selects the same descriptor.
C13_SelectorIgnoresOrder ==
    ("download" \in selPc)
    => \A p \in Permutations(1..Len(formats)) :
          LET G == Reordered(formats, p)
              g == SelectVideoFormat(G, quality)
          IN IF videoFormat = 0 THEN g = 0
             ELSE g # 0 /\ G[g] = formats[videoFormat]

(* ======================= audio selection (SpecAudio) ================== *)
\* C12: an audio request selects, among the audio-only encodings, one with the
\* highest declared bitrate; when none declares a bitrate, the first
\* audio-only encoding.
C12_HighestBitrateAudio ==
    (audioPc = "selected" /\ Len(audioFormats(audioInfo)) > 0)
    => LET af == audioFormats(audioInfo)
       IN /\ audioFormat # 0
          /\ ~audioInfo[audioFormat].hasVideo
          /\ IF \E k \in 1..Len(af) : audioInfo[af[k]].audioBitrate # 0
             THEN \A k \in 1..Len(af) :
                      audioInfo[af[k]].audioBitrate <= audioInfo[audioFormat].audioBitrate
             ELSE audioFormat = af[1]

(* ====================== filename generation (SpecFname) =============== *)
\* the stem described for a title when `kept` are the characters that are kept
\* besides white space and the hyphen: the other characters are dropped, the
\* first character of every run of white space that is left stands for one
\* '_', and the first MaxStemLength characters of the result are taken
StemOf(t, kept) ==
    LET left == SelectSeq(t, LAMBDA c : c \in kept \/ c \in SpaceChars \/ c = "-")
        firsts == SelectSeq(Positions(left), LAMBDA i :
                      left[i] \notin SpaceChars \/ i = 1 \/ left[i - 1] \notin SpaceChars)
        whole == [k \in 1..Len(firsts) |->
                     IF left[firsts[k]] \in SpaceChars THEN "_" ELSE left[firsts[k]]]
    IN [k \in 1..Min(MaxStemLength, Len(whole)) |-> whole[k]]

\* the filename is the stem, '_', the digits of a number and the extension
TimestampAppended ==
    LET n == Len(sanitizedTitle)
        m == Len(filename)
    IN /\ m >= n + 6
       /\ SubSeq(filename, 1, n) = sanitizedTitle
       /\ filename[n + 1] = "_"
       /\ \A i \in (n + 2)..(m - 4) : filename[i] \in AsciiDigits
       /\ SubSeq(filename, m - 3, m) = Extension(format)

ExampleStem ==
    <<"O","f","f","i","c","i","a","l","_","V","i","d","e","o","_","1","_","2","0","2","4">>

\* C14 as stated: the stem is the title without the characters that are not
\* alphanumeric, white space or hyphen, with every run of white space replaced
\* by one underscore, cut to 100 characters, and a numeric timestamp is
\* appended; the example title gives Official_Video_1_2024; the stem holds no
\* white space and no removed character.
C14_FilenameStem ==
    (filename # <<>>)
    => /\ sanitizedTitle = StemOf(title, AsciiLetters \cup AsciiDigits)
       /\ TimestampAppended
       /\ (title = ExampleTitle => sanitizedTitle = ExampleStem)
       /\ \A i \in 1..Len(sanitizedTitle) :
              sanitizedTitle[i] \in AsciiLetters \cup AsciiDigits \cup {"-", "_"}

\* C14 amended: as C14, the characters removed being those that are not an
\* ASCII letter, a digit, an underscore, white space or a hyphen.
C14_FilenameStemAmended ==
    (filename # <<>>)
    => /\ sanitizedTitle = StemOf(title, AsciiLetters \cup AsciiDigits \cup {"_"})
       /\ Len(sanitizedTitle) <= MaxStemLength
       /\ TimestampAppended
       /\ (title = ExampleTitle => sanitizedTitle = ExampleStem)
       /\ \A i \in 1..Len(sanitizedTitle) :
              sanitizedTitle[i] \in AsciiLetters \cup AsciiDigits \cup {"-", "_"}

\* a filename generated from a title longer than the limit that holds an
\* underscore, white space and a character that is removed
C14_Witness ==
    /\ filename # <<>>
    /\ Len(title) > MaxStemLength
    /\ Len(sanitizedTitle) = MaxStemLength
    /\ \E i \in 1..Len(title) : title[i] = "_"
    /\ \E i \in 1..Len(title) : title[i] \in SpaceChars
    /\ \E i \in 1..Len(title) : title[i] = "!"

(* ============================ relays (SpecRelay) ====================== *)
\* C15: a relay whose upstream failed before anything was sent has answered
\* with a JSON error, and res.json is never called on a response whose headers
\* were sent.
C15_JsonErrorBeforeHeaders ==
    \A r \in RelayReqs :
        /\ ~relay[r].jsonLate
        /\ (relay[r].upstreamFailed /\ relay[r].pc = "closed" /\ relay[r].body # "data")
           => (relay[r].body = "json" /\ relay[r].status >= 400)

\* C16: a relay whose upstream failed after data was sent, and whose handler
\* has nothing left to run, has terminated the client connection.
C16_FailedRelayTerminated ==
    \A r \in RelayReqs :
        (relay[r].upstreamFailed /\ relay[r].pc = "closed" /\ relay[r].body = "data")
        => (relay[r].ended \/ relay[r].dropped)

\* C17: no upstream failure ends the process or drops another request.
C17_NoFailureFatal ==
    alive /\ \A r \in RelayReqs : ~relay[r].dropped

(* ======================= identifier extraction (SpecUrl) ============== *)
\* C19: the identifier extracted from a URL is the 11-character identifier of
\* its content, so that the query-parameter, embed, path and short-link forms
\* of the same content give the same identifier.
C19_SameIdentifierForEveryShape ==
    /\ ("proxyService" \in urlPc)
       => /\ videoId = contentId
          /\ \A host \in Hosts, shape \in Shapes :
                 extractVideoId(UrlOf(host, shape, contentId, <<>>)) = videoId
    /\ ("download-ffmpeg" \in urlPc) => ffmpegVideoId = contentId

ResolverLayers == {"mirror", "ytdlp", "proxy"}
Starts(log) == SelectSeq(log, LAMBDA e : e.ev = "start")
Ends(log) == SelectSeq(log, LAMBDA e : e.ev # "start")
\* the calls started and not yet answered
InFlight(log) == Len(Starts(log)) - Len(Ends(log))
\* the place of a layer in the order of getVideoInfo
Rank(layer) ==
    CASE layer = "mirror" -> 1 [] layer = "ytdlp" -> 2 [] layer = "proxy" -> 3 [] OTHER -> 4
HasVideoId(u) == u \in {"valid", "unencodable"}

\* C23: for one request at most one acquisition call is in flight at any time,
\* and a call is started only after the call before it has been seen to fail
\* (to raise, or to answer without a format).
C23_LadderSequential ==
    \A r \in Reqs :
        LET log == req[r].calls
        IN /\ InFlight(log) <= 1
           /\ \A k \in 2..Len(log) :
                  log[k].ev = "start" => log[k - 1].ev \in {"none", "empty"}

\* C27: getVideoInfo calls its layers in the order mirrors, yt-dlp without a
\* proxy, yt-dlp through the proxies, one call at a time; once a call has
\* returned a result with formats no further call of getVideoInfo is started,
\* and a result getVideoInfo returns is the one with formats.
C27_ResolverLayersInOrder ==
    \A r \in Reqs :
        LET log == SelectSeq(req[r].calls, LAMBDA e : e.layer \in ResolverLayers)
        IN /\ \A j, k \in 1..Len(log) : j < k => Rank(log[j].layer) <= Rank(log[k].layer)
           /\ (Len(log) > 0 /\ HasVideoId(req[r].url)) => log[1].layer = "mirror"
           /\ InFlight(log) <= 1
           /\ \A k \in 1..Len(log) : log[k].ev = "formats" => k = Len(log)
           /\ (req[r].pc = "done" /\ req[r].resp = SuccessResponse /\ req[r].attempts = <<>>
               /\ Len(req[r].calls) = Len(log))
              => log[Len(log)].ev = "formats"

\* a request answered from the result yt-dlp gave through the second proxy,
\* after the mirrors, yt-dlp without a proxy and the first proxy gave none
C27_Witness ==
    \E r \in Reqs :
        /\ req[r].pc = "done" /\ req[r].resp = SuccessResponse
        /\ req[r].mi = NumEndpoints /\ req[r].ytdlp = 1 /\ req[r].pi = 2
        /\ req[r].calls[Len(req[r].calls)] = [layer |-> "proxy", ev |-> "formats"]

\* C28: within the mirror lookup an HTTP-success answer without encodings does
\* not end the lookup: for a URL with a video id yt-dlp is started only after
\* every endpoint has been tried.
C28_EmptyMirrorAnswerSkipped ==
    \A r \in Reqs :
        (HasVideoId(req[r].url) /\ \E k \in 1..Len(req[r].calls) : req[r].calls[k].layer = "ytdlp")
        => req[r].mi = NumEndpoints

\* C29: no direct extraction call is made for a request whose resolver call
\* returned a result with at least one format.
C29_DirectOnlyAfterResolverFailed ==
    \A r \in Reqs :
        LET log == req[r].calls
        IN \A j, k \in 1..Len(log) :
               (j < k /\ log[k].layer = "direct")
               => ~(log[j].layer \in ResolverLayers /\ log[j].ev = "formats")

(* ================ two interleaved requests (SpecPair) ================ *)
\* the request of slot r goes through URL validation and the gate in this step
\* and passes / is rejected
PassesGate(r) == GateStep(r) /\ req'[r].pc # "done"
RejectedAtGate(r) == GateStep(r) /\ req'[r].pc = "done"
InFlightRequest(q) == q.pc \notin {"idle", "done"}

\* C24: a request that passes the gate appends exactly one timestamp, the
\* current time, to its client's pruned entry; a request rejected by URL
\* validation or by the gate leaves the entry as it was or pruned of the
\* expired timestamps; no other step changes an entry.
C24_TimestampRecordedOnce ==
    [][\A c \in Clients :
         LET recent == RecentRequests(requestTracker[c], now)
         IN IF \E r \in DOMAIN req : PassesGate(r) /\ req'[r].client = c
            THEN requestTracker'[c] = Append(recent, now)
            ELSE IF \E r \in DOMAIN req : RejectedAtGate(r) /\ req'[r].client = c
            THEN requestTracker'[c] \in {requestTracker[c], recent}
            ELSE requestTracker'[c] = requestTracker[c]]_vars

\* a request was rejected by the gate after an expired timestamp was pruned,
\* and its client's entry holds the one timestamp of the request accepted
\* before it
C24_Witness ==
    \E r \in DOMAIN req :
        /\ Rejected(req[r])
        /\ req[r].pruned > 0
        /\ Len(requestTracker[req[r].client]) = 1

\* a request comes in at the clock reading at which a request of the same
\* client that is still in flight passed the gate
ArrivesInterleaved(r, r2) ==
    /\ r # r2
    /\ GateStep(r)
    /\ req'[r].url # "invalid"
    /\ InFlightRequest(req[r2])
    /\ req[r2].client = req'[r].client
    /\ req[r2].at = now

\* C25 as stated: of two interleaved requests of one client, the one that
\* comes in while the other is in flight passes the gate as the other did,
\* not having seen its timestamp.
C25_InterleavedBothPass ==
    [][\A r, r2 \in DOMAIN req : ArrivesInterleaved(r, r2) => PassesGate(r)]_vars

\* C25 amended: the gate reads the entry and writes the timestamp without
\* suspending in between, so a request that comes in while another request of
\* the same client is in flight finds that request's timestamp and is rejected
\* with 429 when no time has passed since.
C25_InterleavedSecondRejected ==
    [][\A r, r2 \in DOMAIN req :
         ArrivesInterleaved(r, r2) => (RejectedAtGate(r) /\ req'[r].resp.status = 429)]_vars

\* one request is in flight and the other, of the same client and come in at
\* the same clock reading, was rejected by the gate
C25_Witness ==
    \E r, r2 \in DOMAIN req :
        /\ r # r2
        /\ InFlightRequest(req[r2])
        /\ Rejected(req[r])
        /\ req[r].client = req[r2].client
        /\ req[r].at = req[r2].at

\* C30: calls of getWorkingProxies less than one refresh interval apart cause
\* at most one refresh; in particular two refreshes that are in progress
\* together were entered at least one interval apart.
C30_OneRefreshPerInterval ==
    \A r, r2 \in DOMAIN req :
        (r # r2 /\ req[r].pc = "refresh" /\ req[r2].pc = "refresh"
         /\ req[r].refreshAt <= req[r2].refreshAt)
        => req[r2].refreshAt - req[r].refreshAt >= PROXY_REFRESH_INTERVAL

(* ======================= FFmpeg download (SpecFfmpeg) ================= *)
\* C21: after a POST /api/download-ffmpeg request has finished, however it
\* finished, no file written to the temp directory for it remains there.
C21_TempFilesCleanedUp ==
    \A r \in FfReqs :
        ff[r].pc = "finished" => ~\E f \in tempFiles : f.path = ff[r].video

\* C22: the strategies are spawned in the listed order, the next one only
\* after the one before it has exited with failure, none after a success, and
\* 503 is answered only after all five have failed.
C22_StrategiesInOrder ==
    \A r \in FfReqs :
        LET sp == ff[r].spawned
            ex == ff[r].exits
        IN /\ sp = [k \in 1..Len(sp) |-> k]
           /\ Len(sp) <= NumStrategies
           /\ Len(ex) \in {Len(sp) - 1, Len(sp)}
           /\ \A k \in 1..(Len(sp) - 1) : ex[k] = "failed"
           /\ ff[r].status = 503
              => (Len(ex) = NumStrategies /\ \A k \in 1..NumStrategies : ex[k] = "failed")

\* one request was answered 503 after five failures while another went on to
\* stream the file its third strategy produced
C22_Witness ==
    \E r, r2 \in FfReqs :
        /\ ff[r].status = 503 /\ Len(ff[r].exits) = NumStrategies
        /\ ff[r2].pc = "streaming" /\ ff[r2].exits = <<"failed", "failed", "succeeded">>

(* ================ production and development (SpecLimits) ============= *)
\* C26: for any recorded history of a client and any current time, a request
\* the gate accepts under the production settings is accepted under the
\* development settings.
C26_ProductionStricter ==
    gateVerdict.applied => (gateVerdict.prod => gateVerdict.dev)

\* production accepts on a full entry of which development has already
\* dropped a timestamp that is older than its shorter window
C26_Witness ==
    /\ gateVerdict.applied /\ gateVerdict.prod /\ gateVerdict.dev
    /\ Len(SelectSeq(gateRequests, LAMBDA time : gateNow - time < timeWindowProd)) = maxRequestsProd
    /\ Len(SelectSeq(gateRequests, LAMBDA time : gateNow - time < timeWindowDev)) < maxRequestsProd

(* ========================= proxy cache (SpecProxies) ================== *)
\* the candidates the refresh awaited by request q put to the health check
TestedBy(q) == {q.candidates[i] : i \in 1..Min(MaxTested, Len(q.candidates))}

C32_NoIdentifierNothingTried ==
    \A r \in Reqs :
        (req[r].pc # "idle" /\ ~HasVideoId(req[r].url) /\ req[r].url # "invalid")
        => req[r].calls = <<>>

(* ==================== tool processes (SpecFfmpeg) ===================== *)
\* the request is suspended on a yt-dlp process
AwaitsTool(x) == x.pc \in {"running", "title"}

\* C33: a request that awaits a yt-dlp process that never exits has a timeout
\* on that process: the wait is bounded.
C33_ToolInvocationBounded ==
    \A r \in FfReqs : (AwaitsTool(ff[r]) /\ ff[r].hung) => ff[r].timeout > 0

(* ================ requests sharing an outputPath (SpecFfmpeg) ========= *)
\* the output file at the outputPath of request r
OutputOf(r) == [path |-> ff[r].video, kind |-> "output"]

\* C38: while a request is past its successful download and has its output
\* file still to stream, or is streaming it, no step of another request
\* removes that file.
C38_OutputFileNotRemovedByOthers ==
    [][\A q \in FfReqs :
          (/\ ff[q].pc \in {"title", "streaming"}
           /\ ff'[q] = ff[q]
           /\ OutputOf(q) \in tempFiles)
          => OutputOf(q) \in tempFiles']_vars

(* ================= endpoints and the gate (SpecUngated) =============== *)
\* the streaming request has started its outbound acquisition
RelayAcquires(x) == x.pc \in {"getInfo", "getVideoInfo", "yt-dlp", "piping"}

\* C37: no streaming request starts its metadata fetch, proxy-service call or
\* upstream read, and no POST /api/download-ffmpeg request spawns yt-dlp, for
\* a client that the gate would have rejected when the request came in.
C37_AcquisitionBehindGate ==
    /\ \A r \in RelayReqs : RelayAcquires(relay[r]) => ~relay[r].barred
    /\ \A r \in FfReqs : ff[r].pc = "running" => ~ff[r].barred

(* ==================== client disconnect (SpecRelay) =================== *)
\* C34: once the client of a relay has disconnected, nothing more is read
\* from the upstream location for that request.
C34_NoFetchAfterDisconnect ==
    \A r \in RelayReqs : relay[r].clientGone => relay[r].fetchedAfter = 0

C39_CancelledHasNoEffect ==
    \A m \in Mutations :
        mutations[m].cancelled => ~mutations[m].recorded /\ ~mutations[m].clicked

(* ================ reported size and relay (SpecProxySel) ============== *)
\* C36: on the proxy-service path, for the same formats and the same quality,
\* the format whose size POST /api/download reports is the format that GET
\* /api/stream/proxy-video selects and relays.
C36_ReportedIsRelayed ==
    {"download", "stream"} \subseteq selPc => videoFormat = selectedFormat
====
